---- MODULE Spec2Model ----
(***************************************************************************)
(* State-machine model of mcp_central.chat_service.ChatService: the        *)
(* process_query coroutine (one frame per invocation, one action per run   *)
(* between two awaits), the conversation state it updates, and the         *)
(* collaborators it calls (model API, approval callback, tool sessions).   *)
(***************************************************************************)
EXTENDS Integers, Sequences, FiniteSets, TLC

(* ------------------------------ bounds --------------------------------- *)

\* turns kept in chat_history before a new query is no longer submitted
MaxTurns == 2
\* longest tool-call list one model response carries
MaxCalls == 2
\* value of actual_token_count above which no new query is submitted
MaxTokens == 2
\* longest qualified name drawn when the name split is checked on its own
MaxNameLen == 4
\* longest chat_history drawn when the message building and clear_history are
\* checked on their own
MaxHistory == 4
\* longest stream, in fragments, drawn when the stream accumulator is checked
\* on its own
MaxFragments == 4

(* ------------------------------ data ----------------------------------- *)

\* invocations of process_query that may exist; the sequential caller uses one
TurnIds == {1, 2}
SeqTurns == {1}

Queries == {"q1", "q2"}
Texts == {"", "r1"}

\* a string that has to be split is a sequence of one-character strings
Chars == {"a", "b", "."}
NameAS == <<"a", ".", "s">>
NameBS == <<"b", ".", "s">>
NameS == <<"s">>
NameAST == <<"a", ".", "s", ".", "t">>

ServerNames == {<<"a">>, <<"b">>}

\* the server sets a connector run ends with
ServerSets == {{}, {<<"a">>}, {<<"a">>, <<"b">>}}

\* tool calls a model response is assembled from: {function.name, function.arguments}
ToolCalls ==
    { [name |-> NameAS, arguments |-> "x1"],
      [name |-> NameBS, arguments |-> "x1"],
      [name |-> NameS, arguments |-> "x1"],
      [name |-> NameAST, arguments |-> "x2"] }

RECURSIVE SeqsUpTo(_, _)
SeqsUpTo(S, n) ==
    IF n = 0 THEN {<<>>}
    ELSE LET shorter == SeqsUpTo(S, n - 1)
         IN  shorter \cup {Append(s, x) : s \in {r \in shorter : Len(r) = n - 1}, x \in S}

ToolCallLists == SeqsUpTo(ToolCalls, MaxCalls)

\* metrics of a stream: None, or a dict whose eval_count may be missing or zero
MetricsSet ==
    { [present |-> FALSE, eval_count |-> 0],
      [present |-> TRUE, eval_count |-> 0],
      [present |-> TRUE, eval_count |-> 1] }

\* result.content of a call_tool result: a list of items with a text
ToolResults ==
    { <<>>,
      <<[text |-> "x"]>>,
      <<[text |-> "y"], [text |-> "x"]>> }

SkippedByUser == "Tool call was skipped by user"

\* the stream accumulator handing back no text at all (None)
NoText == "<None>"
TextsOrNone == Texts \cup {NoText}

\* the content lists of the narrower specification
ToolResultsTwo == {<<>>, <<[text |-> "x"]>>}

\* one call to a registered server and one without a server part
ToolCallsTwo ==
    { [name |-> NameAS, arguments |-> "x1"],
      [name |-> NameS, arguments |-> "x1"] }

ToolCallListsTwo == SeqsUpTo(ToolCallsTwo, MaxCalls)

Models == {"default_model", "m2"}
\* model configurations: the system prompt and the options they give
ModelConfigs ==
    { [system_prompt |-> "", options |-> "default_options"],
      [system_prompt |-> "sys", options |-> "o2"] }

\* a document part without any key
NoKeys == [k \in {} |-> TRUE]

\* the parts a configuration document is made of: each top-level key is absent
\* or present, a present section holds all, some or none of its keys
ModelParts == {NoKeys, "model" :> "m2"}
EnabledToolsParts ==
    { NoKeys,
      "enabledTools" :> (NameAS :> FALSE),
      "enabledTools" :> (NameAS :> TRUE @@ NameBS :> TRUE) }
ContextParts ==
    { NoKeys,
      "contextSettings" :> NoKeys,
      "contextSettings" :> ("retainContext" :> FALSE) }
ModelSettingsParts ==
    { NoKeys,
      "modelSettings" :> ("thinkingMode" :> FALSE),
      "modelSettings" :> ("showThinking" :> TRUE),
      "modelSettings" :> ("thinkingMode" :> TRUE @@ "showThinking" :> TRUE) }
ModelConfigParts ==
    {NoKeys} \cup {"modelConfig" :> config : config \in ModelConfigs}
DisplayParts ==
    { NoKeys,
      "displaySettings" :> ("showMetrics" :> TRUE),
      "displaySettings" :> ("showToolExecution" :> FALSE @@ "showMetrics" :> TRUE) }

\* the documents config_manager.load_configuration may hand back; the one
\* without any key is falsy (no configuration found)
ConfigDocuments ==
    { m @@ e @@ c @@ ms @@ mc @@ d :
        m \in ModelParts, e \in EnabledToolsParts, c \in ContextParts,
        ms \in ModelSettingsParts, mc \in ModelConfigParts, d \in DisplayParts }

\* what ollama.show(model) does: it raises, or returns model_info without a
\* 'capabilities' field, with an empty one, or with a list of capabilities
ShowRaises == [raises |-> TRUE, has_capabilities |-> FALSE, capabilities |-> {}]
ShowNoField == [raises |-> FALSE, has_capabilities |-> FALSE, capabilities |-> {}]
ShowEmpty == [raises |-> FALSE, has_capabilities |-> TRUE, capabilities |-> {}]
ShowCompletion ==
    [raises |-> FALSE, has_capabilities |-> TRUE, capabilities |-> {"completion"}]
ShowThinking ==
    [raises |-> FALSE, has_capabilities |-> TRUE,
     capabilities |-> {"completion", "thinking"}]

ShowResults == {ShowRaises, ShowNoField, ShowEmpty, ShowCompletion, ShowThinking}
\* one failing and one supporting answer
ShowResultsTwo == {ShowRaises, ShowThinking}

(* ------------------------------ state ---------------------------------- *)

VARIABLES
    chat_history,        \* self.chat_history: list of {query, response}
    actual_token_count,  \* self.actual_token_count
    sessions,            \* self.sessions: server name -> {"session": handle}
    enabled_tools,       \* tool_manager.get_enabled_tool_objects(), as a set of names
    settings,            \* the configurable settings of ChatService.__init__
    frame,               \* per process_query invocation: its locals and position
    fn_in,               \* input of a pure function checked on its own
    fn_out               \* its result

vars == <<chat_history, actual_token_count, sessions, enabled_tools, settings,
          frame, fn_in, fn_out>>

IdleFrame ==
    [ pc |-> "idle", query |-> "", messages |-> <<>>, available_tools |-> {},
      model |-> "", model_options |-> "",
      tool_calls |-> <<>>, i |-> 0, response_text |-> "",
      calls |-> <<>>, h0 |-> <<>>, c0 |-> 0, s0 |-> {} ]

NoInput == [kind |-> "none"]

NoSessions == [s \in {} |-> [session |-> "none"]]

\* the settings after construction: the defaults of __init__, the default
\* model, no system prompt and the default options of the model configuration
InitSettings ==
    [ retain_context |-> TRUE, thinking_mode |-> TRUE, show_thinking |-> FALSE,
      show_tool_execution |-> TRUE, show_metrics |-> FALSE,
      model |-> "default_model", system_prompt |-> "", options |-> "default_options" ]

Init ==
    /\ chat_history = <<>>
    /\ actual_token_count = 0
    /\ sessions = NoSessions
    /\ enabled_tools = {}
    /\ settings = InitSettings
    /\ frame = [t \in TurnIds |-> IdleFrame]
    /\ fn_in = NoInput
    /\ fn_out = NoInput

(* ------------------------- pure parts of the code ---------------------- *)

\* FirstDot finding the last dot instead (rsplit for split)
LastDot(s, k) ==
    IF \E j \in k..Len(s) : s[j] = "."
    THEN CHOOSE j \in k..Len(s) : s[j] = "." /\ \A m \in (j + 1)..Len(s) : s[m] # "."
    ELSE 0

\* str.find('.'): the least index holding a dot, scanning from k; 0 if there is none
RECURSIVE FirstDot(_, _)
FirstDot(s, k) ==
    IF k > Len(s) THEN 0
    ELSE IF s[k] = "." THEN k
    ELSE FirstDot(s, k + 1)

\* tool_name.split('.', 1) if '.' in tool_name else (None, tool_name)
SplitName(tool_name) ==
    LET d == FirstDot(tool_name, 1)
    IN  IF d # 0
        THEN [ is_none |-> FALSE,
               server_name |-> SubSeq(tool_name, 1, d - 1),
               actual_tool_name |-> SubSeq(tool_name, d + 1, Len(tool_name)) ]
        ELSE [ is_none |-> TRUE,
               server_name |-> <<>>,
               actual_tool_name |-> tool_name ]

\* not server_name or server_name not in self.sessions
UnknownServer(tool_name, sess) ==
    LET sp == SplitName(tool_name)
    IN  \/ sp.is_none
        \/ sp.server_name = <<>>
        \/ sp.server_name \notin DOMAIN sess

\* SupportsThinkingMode answering True when it cannot tell
SupportsThinkingModeOptimistic(info) ==
    IF info.raises THEN TRUE
    ELSE IF info.has_capabilities /\ info.capabilities # {}
    THEN "thinking" \in info.capabilities
    ELSE TRUE

\* supports_thinking_mode(): 'thinking' in model_info['capabilities'] if the
\* field is there and not empty; False otherwise and on any exception
SupportsThinkingMode(info) ==
    IF info.raises THEN FALSE
    ELSE IF info.has_capabilities /\ info.capabilities # {}
    THEN "thinking" \in info.capabilities
    ELSE FALSE

\* the probe of one model call: what ollama.show did and what the probe returned
ProbeEvent(info) ==
    [op |-> "probe", info |-> info, ret |-> SupportsThinkingMode(info)]

\* the eval_count a stream reported, 0 if it reported none
Eval(metrics) == IF metrics.present THEN metrics.eval_count ELSE 0

\* what process_streaming_response returned for one stream
StreamEvent(text, tcs, metrics) ==
    [op |-> "stream", text |-> text, n_calls |-> Len(tcs), eval |-> Eval(metrics)]

\* ExpandHistory with the newest entry first
RECURSIVE ExpandHistoryNewestFirst(_)
ExpandHistoryNewestFirst(h) ==
    IF h = <<>> THEN <<>>
    ELSE ExpandHistoryNewestFirst(Tail(h))
         \o << [role |-> "user", content |-> Head(h).query],
                [role |-> "assistant", content |-> Head(h).response] >>

\* for entry in self.chat_history: a user and an assistant message each
RECURSIVE ExpandHistory(_)
ExpandHistory(h) ==
    IF h = <<>> THEN <<>>
    ELSE << [role |-> "user", content |-> Head(h).query],
            [role |-> "assistant", content |-> Head(h).response] >>
         \o ExpandHistory(Tail(h))

\* BuildMessages that includes the history whatever retain_context says
BuildMessagesAlwaysRetain(query, history, retain, system_prompt) ==
    LET current_message == [role |-> "user", content |-> query]
        messages == Append(ExpandHistory(history), current_message)
    IN  IF system_prompt # ""
        THEN <<[role |-> "system", content |-> system_prompt]>> \o messages
        ELSE messages

\* the messages array built for a query, the system prompt inserted at the
\* front if one is configured
BuildMessages(query, history, retain, system_prompt) ==
    LET current_message == [role |-> "user", content |-> query]
        messages == IF retain /\ history # <<>>
                    THEN Append(ExpandHistory(history), current_message)
                    ELSE <<current_message>>
    IN  IF system_prompt # ""
        THEN <<[role |-> "system", content |-> system_prompt]>> \o messages
        ELSE messages

\* AddTokens storing the eval count instead of adding it
AddTokensOverwrite(count, metrics) ==
    IF metrics.present /\ metrics.eval_count # 0
    THEN metrics.eval_count
    ELSE count

\* if metrics and metrics.get('eval_count'): self.actual_token_count += ...
AddTokens(count, metrics) ==
    IF metrics.present /\ metrics.eval_count # 0
    THEN count + metrics.eval_count
    ELSE count

\* SkipMessage with another text
SkipMessageOtherText(tool_name) ==
    [role |-> "tool", content |-> "skipped", name |-> tool_name]

\* the tool message appended for a call that the approval callback rejected
SkipMessage(tool_name) ==
    [role |-> "tool", content |-> SkippedByUser, name |-> tool_name]

\* ToolMessage taking the last content item instead of the first
ToolMessageLastItem(tool_name, content) ==
    [role |-> "tool", content |-> content[Len(content)].text, name |-> tool_name]

\* tool_response = f"{result.content[0].text}" and the message appended for it
ToolMessage(tool_name, content) ==
    [role |-> "tool", content |-> content[1].text, name |-> tool_name]

\* NextCall leaving the loop at the first unknown server (break for continue)
NextCallBreak(tool_calls, k, sess) ==
    IF k > Len(tool_calls) THEN k
    ELSE IF UnknownServer(tool_calls[k].name, sess) THEN Len(tool_calls) + 1
    ELSE k

\* the for loop from position k up to the next await: calls to unknown servers
\* are passed over by `continue`; the result is the position of the next call
\* that reaches hil_callback, or Len + 1 when the loop is exhausted
RECURSIVE NextCall(_, _, _)
NextCall(tool_calls, k, sess) ==
    IF k > Len(tool_calls) THEN k
    ELSE IF UnknownServer(tool_calls[k].name, sess) THEN NextCall(tool_calls, k + 1, sess)
    ELSE k

\* the position after the loop has advanced to k: awaiting the approval of call
\* k, or past the loop and awaiting the capability probe of the follow-up call
LoopPc(tool_calls, k) ==
    IF k <= Len(tool_calls) THEN "hil" ELSE "probe2"

\* EntersToolPhase without the test on the enabled tools
EntersToolPhaseAnyCall(tool_calls, enabled) ==
    Len(tool_calls) > 0

\* if len(tool_calls) > 0 and self.tool_manager.get_enabled_tool_objects()
EntersToolPhase(tool_calls, enabled) ==
    Len(tool_calls) > 0 /\ enabled # {}

\* HistoryEntry without the coercion of a missing text
HistoryEntryAsReturned(query, response_text) ==
    [query |-> query, response |-> response_text]

\* if not response_text: response_text = ""; the history entry of the turn
HistoryEntry(query, response_text) ==
    [ query |-> query,
      response |-> IF response_text \in {"", NoText} THEN "" ELSE response_text ]

\* ChatParams attaching the reasoning flag whatever the probe returned
ChatParamsThinkAlways(f, has_tools, tools, supports, thinking_mode) ==
    [ op |-> "chat", model |-> f.model, messages |-> f.messages,
      has_tools |-> has_tools, tools |-> tools, options |-> f.model_options,
      think |-> IF thinking_mode THEN "true" ELSE "false" ]

\* ChatParams reading the model and the options when the call is made
ChatParamsCurrentModel(f, has_tools, tools, supports, thinking_mode) ==
    [ op |-> "chat", model |-> settings.model, messages |-> f.messages,
      has_tools |-> has_tools, tools |-> tools, options |-> settings.options,
      think |-> IF supports THEN IF thinking_mode THEN "true" ELSE "false"
                ELSE "absent" ]

\* chat_params / chat_params_followup, as handed to ollama.chat
ChatParams(f, has_tools, tools, supports, thinking_mode) ==
    [ op |-> "chat", model |-> f.model, messages |-> f.messages,
      has_tools |-> has_tools, tools |-> tools, options |-> f.model_options,
      think |-> IF supports THEN IF thinking_mode THEN "true" ELSE "false"
                ELSE "absent" ]

InFlight(t) == frame[t].pc # "idle"

NoTurnInFlight == \A t \in TurnIds : ~InFlight(t)

(* ------------------------------ actions -------------------------------- *)

\* process_query(query) is called: the messages are built, the enabled tools,
\* the model and its options are read, and the coroutine awaits the probe
StartQuery(t, q) ==
    /\ frame[t].pc = "idle"
    /\ Len(chat_history) < MaxTurns
    /\ actual_token_count < MaxTokens
    /\ frame' = [frame EXCEPT ![t] =
            [ pc |-> "probe1", query |-> q,
              messages |-> BuildMessages(q, chat_history, settings.retain_context,
                                         settings.system_prompt),
              available_tools |-> enabled_tools,
              model |-> settings.model, model_options |-> settings.options,
              tool_calls |-> <<>>, i |-> 0, response_text |-> "",
              calls |-> <<>>, h0 |-> chat_history, c0 |-> actual_token_count,
              s0 |-> DOMAIN sessions ]]
    /\ UNCHANGED <<chat_history, actual_token_count, sessions, enabled_tools,
                   settings, fn_in, fn_out>>

\* supports_thinking_mode() returns (it never raises); ollama.chat is called
\* with the initial parameters and awaited
Probe1(t, info) ==
    /\ frame[t].pc = "probe1"
    /\ frame' = [frame EXCEPT ![t].pc = "chat1",
                              ![t].calls = @ \o
                                  << ProbeEvent(info),
                                     ChatParams(frame[t], TRUE,
                                                frame[t].available_tools,
                                                SupportsThinkingMode(info),
                                                settings.thinking_mode) >>]
    /\ UNCHANGED <<chat_history, actual_token_count, sessions, enabled_tools,
                   settings, fn_in, fn_out>>

\* the coroutine is cancelled while awaiting supports_thinking_mode()
ProbeCancelled(t) ==
    /\ frame[t].pc \in {"probe1", "probe2"}
    /\ frame' = [frame EXCEPT ![t].pc = "failed"]
    /\ UNCHANGED <<chat_history, actual_token_count, sessions, enabled_tools,
                   settings, fn_in, fn_out>>

\* ollama.chat returns the stream; process_streaming_response is awaited
ChatReturns(t) ==
    /\ frame[t].pc \in {"chat1", "chat2"}
    /\ frame' = [frame EXCEPT ![t].pc = IF @ = "chat1" THEN "stream1" ELSE "stream2"]
    /\ UNCHANGED <<chat_history, actual_token_count, sessions, enabled_tools,
                   settings, fn_in, fn_out>>

\* ChatRaises with the failed call issued again
ChatRaisesRetried(t) ==
    /\ frame[t].pc \in {"chat1", "chat2"}
    /\ frame' = [frame EXCEPT ![t].calls = Append(@, @[Len(@)])]
    /\ UNCHANGED <<chat_history, actual_token_count, sessions, enabled_tools,
                   settings, fn_in, fn_out>>

\* ollama.chat raises, or the coroutine is cancelled while awaiting it
ChatRaises(t) ==
    /\ frame[t].pc \in {"chat1", "chat2"}
    /\ frame' = [frame EXCEPT ![t].pc = "failed"]
    /\ UNCHANGED <<chat_history, actual_token_count, sessions, enabled_tools,
                   settings, fn_in, fn_out>>

\* process_streaming_response raises (malformed stream, transport error), or
\* the coroutine is cancelled while the stream is consumed
StreamRaises(t) ==
    /\ frame[t].pc \in {"stream1", "stream2"}
    /\ frame' = [frame EXCEPT ![t].pc = "failed"]
    /\ UNCHANGED <<chat_history, actual_token_count, sessions, enabled_tools,
                   settings, fn_in, fn_out>>

\* Finalize appending the entry twice
FinalizeTwice(t, response_text) ==
    chat_history' = Append(Append(chat_history, HistoryEntry(frame[t].query, response_text)),
                           HistoryEntry(frame[t].query, response_text))

\* Finalize writing back the history read when the turn started
FinalizeFromSnapshot(t, response_text) ==
    chat_history' = Append(frame[t].h0, HistoryEntry(frame[t].query, response_text))

\* Finalize placing the entry where the turn was submitted
FinalizeInSubmissionOrder(t, response_text) ==
    LET n == IF Len(frame[t].h0) < Len(chat_history)
             THEN Len(frame[t].h0) ELSE Len(chat_history)
    IN  chat_history' = SubSeq(chat_history, 1, n)
                          \o <<HistoryEntry(frame[t].query, response_text)>>
                          \o SubSeq(chat_history, n + 1, Len(chat_history))

\* the turn's last lines: the response is coerced and appended to the history
Finalize(t, response_text) ==
    chat_history' = Append(chat_history, HistoryEntry(frame[t].query, response_text))

\* the initial stream ends with (response_text, tool_calls, metrics): the token
\* count is updated; then either the tool loop runs up to its first await, or
\* the turn is finalized
Accumulate1(t, text, tcs, metrics) ==
    /\ frame[t].pc = "stream1"
    /\ actual_token_count' = AddTokens(actual_token_count, metrics)
    /\ IF EntersToolPhase(tcs, enabled_tools)
       THEN LET k == NextCall(tcs, 1, sessions)
            IN  /\ frame' = [frame EXCEPT ![t].pc = LoopPc(tcs, k),
                                          ![t].tool_calls = tcs,
                                          ![t].i = k,
                                          ![t].response_text = text,
                                          ![t].calls = Append(@, StreamEvent(text, tcs, metrics))]
                /\ UNCHANGED chat_history
       ELSE /\ frame' = [frame EXCEPT ![t].pc = "done",
                                      ![t].tool_calls = tcs,
                                      ![t].response_text = text,
                                      ![t].calls = Append(@, StreamEvent(text, tcs, metrics))]
            /\ Finalize(t, text)
    /\ UNCHANGED <<sessions, enabled_tools, settings, fn_in, fn_out>>

\* the session on which call_tool is invoked for a resolved server name
ResolveSession(sess, server_name) == sess[server_name].session

\* the call_tool invocation of the call at position k
CallToolEvent(f, k, sess) ==
    LET sp == SplitName(f.tool_calls[k].name)
    IN  [ op |-> "call_tool", i |-> k,
          session |-> ResolveSession(sess, sp.server_name),
          tool |-> sp.actual_tool_name,
          arguments |-> f.tool_calls[k].arguments ]

\* the hil_callback invocation of the call at position k and what it returned
HilEvent(f, k, ok) ==
    [ op |-> "hil", i |-> k, name |-> f.tool_calls[k].name,
      arguments |-> f.tool_calls[k].arguments, ret |-> ok ]

\* the result that call_tool returned for the call at position k
ResultEvent(k, content) ==
    [op |-> "result", i |-> k, content |-> content]

\* ShouldExecute ignoring what the callback returned
ShouldExecuteAlways(should_execute) == TRUE

\* if not should_execute: ... continue
ShouldExecute(should_execute) == should_execute

\* AppendMessage inserting at the front
InsertMessageFirst(messages, m) == <<m>> \o messages

\* messages.append(...)
AppendMessage(messages, m) == Append(messages, m)

\* hil_callback returns should_execute for the call at position i: a rejected
\* call gets its skip message and the loop runs on to its next await; an
\* approved call is sent to its session and call_tool is awaited
HilReturns(t, ok) ==
    LET f == frame[t]
        sp == SplitName(f.tool_calls[f.i].name)
    IN  /\ f.pc = "hil"
        /\ IF ~ShouldExecute(ok)
           THEN LET k == NextCall(f.tool_calls, f.i + 1, sessions)
                IN  frame' = [frame EXCEPT
                        ![t].pc = LoopPc(f.tool_calls, k),
                        ![t].i = k,
                        ![t].messages = AppendMessage(@, SkipMessage(f.tool_calls[f.i].name)),
                        ![t].calls = Append(@, HilEvent(f, f.i, ok))]
           ELSE IF sp.server_name \in DOMAIN sessions
           THEN frame' = [frame EXCEPT
                        ![t].pc = "call_tool",
                        ![t].calls = @ \o <<HilEvent(f, f.i, ok),
                                           CallToolEvent(f, f.i, sessions)>>]
           ELSE \* self.sessions[server_name] raises KeyError
                frame' = [frame EXCEPT
                        ![t].pc = "failed",
                        ![t].calls = Append(@, HilEvent(f, f.i, ok))]
        /\ UNCHANGED <<chat_history, actual_token_count, sessions, enabled_tools,
                       settings, fn_in, fn_out>>

\* hil_callback raises, or the coroutine is cancelled while awaiting it
HilRaises(t) ==
    /\ frame[t].pc = "hil"
    /\ frame' = [frame EXCEPT ![t].pc = "failed",
                              ![t].calls = Append(@, [op |-> "hil_raised", i |-> frame[t].i])]
    /\ UNCHANGED <<chat_history, actual_token_count, sessions, enabled_tools,
                   settings, fn_in, fn_out>>

\* call_tool returns its result: the text of the first content item becomes a
\* tool message and the loop runs on to its next await; a result without
\* content raises IndexError
CallToolReturns(t, content) ==
    LET f == frame[t]
    IN  /\ f.pc = "call_tool"
        /\ IF content = <<>>
           THEN frame' = [frame EXCEPT ![t].pc = "failed",
                                       ![t].calls = Append(@, ResultEvent(f.i, content))]
           ELSE LET k == NextCall(f.tool_calls, f.i + 1, sessions)
                IN  frame' = [frame EXCEPT
                        ![t].pc = LoopPc(f.tool_calls, k),
                        ![t].i = k,
                        ![t].messages = AppendMessage(@, ToolMessage(f.tool_calls[f.i].name, content)),
                        ![t].calls = Append(@, ResultEvent(f.i, content))]
        /\ UNCHANGED <<chat_history, actual_token_count, sessions, enabled_tools,
                       settings, fn_in, fn_out>>

\* CallToolRaises with the exception caught and the loop carried on
CallToolRaisesCaught(t) ==
    LET f == frame[t]
        k == NextCall(f.tool_calls, f.i + 1, sessions)
    IN  /\ f.pc = "call_tool"
        /\ frame' = [frame EXCEPT ![t].pc = LoopPc(f.tool_calls, k),
                                  ![t].i = k,
                                  ![t].calls = Append(@, [op |-> "call_tool_raised",
                                                          i |-> f.i])]
        /\ UNCHANGED <<chat_history, actual_token_count, sessions, enabled_tools,
                       settings, fn_in, fn_out>>

\* call_tool raises, or the coroutine is cancelled while awaiting it
CallToolRaises(t) ==
    /\ frame[t].pc = "call_tool"
    /\ frame' = [frame EXCEPT ![t].pc = "failed",
                              ![t].calls = Append(@, [op |-> "call_tool_raised",
                                                      i |-> frame[t].i])]
    /\ UNCHANGED <<chat_history, actual_token_count, sessions, enabled_tools,
                   settings, fn_in, fn_out>>

\* Probe2 ending the turn with the initial text when no tool was executed
Probe2OnlyAfterExecution(t, info) ==
    /\ frame[t].pc = "probe2"
    /\ IF \A p \in 1..Len(frame[t].calls) : frame[t].calls[p].op # "call_tool"
       THEN /\ frame' = [frame EXCEPT ![t].pc = "done"]
            /\ Finalize(t, frame[t].response_text)
       ELSE /\ frame' = [frame EXCEPT ![t].pc = "chat2",
                                      ![t].calls = @ \o
                                          << ProbeEvent(info),
                                             ChatParams(frame[t], FALSE, {},
                                                        SupportsThinkingMode(info),
                                                        settings.thinking_mode) >>]
            /\ UNCHANGED chat_history
    /\ UNCHANGED <<actual_token_count, sessions, enabled_tools, settings, fn_in, fn_out>>

\* supports_thinking_mode() returns for the follow-up call; ollama.chat is
\* called with chat_params_followup (no tools) and awaited
Probe2(t, info) ==
    /\ frame[t].pc = "probe2"
    /\ frame' = [frame EXCEPT ![t].pc = "chat2",
                              ![t].calls = @ \o
                                  << ProbeEvent(info),
                                     ChatParams(frame[t], FALSE, {},
                                                SupportsThinkingMode(info),
                                                settings.thinking_mode) >>]
    /\ UNCHANGED <<chat_history, actual_token_count, sessions, enabled_tools,
                   settings, fn_in, fn_out>>

\* Accumulate2 with the append counting one more token
Accumulate2CountsTurn(t, text, metrics) ==
    /\ frame[t].pc = "stream2"
    /\ actual_token_count' = AddTokens(actual_token_count, metrics) + 1
    /\ frame' = [frame EXCEPT ![t].pc = "done", ![t].response_text = text,
                              ![t].calls = Append(@, StreamEvent(text, <<>>, metrics))]
    /\ Finalize(t, text)
    /\ UNCHANGED <<sessions, enabled_tools, settings, fn_in, fn_out>>

\* the follow-up stream ends with (response_text, _, followup_metrics): the
\* token count is updated and the turn is finalized
Accumulate2(t, text, metrics) ==
    /\ frame[t].pc = "stream2"
    /\ actual_token_count' = AddTokens(actual_token_count, metrics)
    /\ frame' = [frame EXCEPT ![t].pc = "done", ![t].response_text = text,
                              ![t].calls = Append(@, StreamEvent(text, <<>>, metrics))]
    /\ Finalize(t, text)
    /\ UNCHANGED <<sessions, enabled_tools, settings, fn_in, fn_out>>

\* process_query has returned or raised: the caller drops the coroutine
Return(t) ==
    /\ frame[t].pc \in {"done", "failed"}
    /\ frame' = [frame EXCEPT ![t] = IdleFrame]
    /\ UNCHANGED <<chat_history, actual_token_count, sessions, enabled_tools,
                   settings, fn_in, fn_out>>

\* MergeSlice keeping only the last slice of a call index
MergeSliceOverwrite(builder, slice) ==
    IF slice.index \in DOMAIN builder
    THEN [builder EXCEPT ![slice.index] =
            [name |-> slice.name, arguments |-> slice.arguments]]
    ELSE builder @@ (slice.index :> [name |-> slice.name, arguments |-> slice.arguments])

\* the slice of a tool call that one fragment carries, merged into the builder
\* entry of its call index: names and arguments are concatenated
MergeSlice(builder, slice) ==
    IF slice.index \in DOMAIN builder
    THEN [builder EXCEPT ![slice.index] =
            [ name |-> @.name \o slice.name,
              arguments |-> @.arguments \o slice.arguments ]]
    ELSE builder @@ (slice.index :> [name |-> slice.name, arguments |-> slice.arguments])

\* the accumulator before the first fragment of a stream
EmptyAccumulator ==
    [ kind |-> "accumulating", pos |-> 0, text |-> <<>>,
      builder |-> [k \in {} |-> TRUE], order |-> <<>> ]

\* the accumulator after one more fragment
Accumulated(acc, fragment) ==
    LET slices == fragment.tool_calls
        isNew == slices # <<>> /\ slices[1].index \notin DOMAIN acc.builder
    IN  [ kind |-> "accumulating",
          pos |-> acc.pos + 1,
          text |-> acc.text \o fragment.text,
          builder |-> IF slices = <<>> THEN acc.builder
                      ELSE MergeSlice(acc.builder, slices[1]),
          order |-> IF isNew THEN Append(acc.order, slices[1].index) ELSE acc.order ]

\* what the accumulator hands back once the stream has ended: the text and the
\* completed tool calls in the order their indices first appeared
Finalized(acc) ==
    [ kind |-> "returned",
      text |-> acc.text,
      tool_calls |-> [p \in 1..Len(acc.order) |-> acc.builder[acc.order[p]]] ]

\* dict.get(key, default)
Get(d, key, default) == IF key \in DOMAIN d THEN d[key] ELSE default

\* the tools the tool manager holds as available: those of connected servers
AvailableToolNames(sess) ==
    {n \in {NameAS, NameBS} : SplitName(n).server_name \in DOMAIN sess}

\* load_configuration: the settings after the document was applied
LoadedSettings(doc, st) ==
    LET s1 == IF "model" \in DOMAIN doc
              THEN [st EXCEPT !.model = doc["model"]] ELSE st
        s2 == IF "contextSettings" \in DOMAIN doc
              THEN [s1 EXCEPT !.retain_context =
                        Get(doc["contextSettings"], "retainContext", TRUE)]
              ELSE s1
        s3 == IF "modelSettings" \in DOMAIN doc
              THEN [s2 EXCEPT !.thinking_mode =
                        Get(doc["modelSettings"], "thinkingMode", TRUE),
                              !.show_thinking =
                        Get(doc["modelSettings"], "showThinking", FALSE)]
              ELSE s2
        s4 == IF "modelConfig" \in DOMAIN doc
              THEN [s3 EXCEPT !.system_prompt = doc["modelConfig"].system_prompt,
                              !.options = doc["modelConfig"].options]
              ELSE s3
    IN  IF "displaySettings" \in DOMAIN doc
        THEN [s4 EXCEPT !.show_tool_execution =
                        Get(doc["displaySettings"], "showToolExecution", TRUE),
                        !.show_metrics =
                        Get(doc["displaySettings"], "showMetrics", FALSE)]
        ELSE s4

\* load_configuration: the enabled tools after the "enabledTools" map was
\* applied to the tools that are available
LoadedTools(doc, enabled, sess) ==
    IF "enabledTools" \in DOMAIN doc
    THEN LET named == DOMAIN doc["enabledTools"] \cap AvailableToolNames(sess)
         IN  (enabled \ named) \cup {n \in named : doc["enabledTools"][n]}
    ELSE enabled

\* load_configuration(config_name), the stored document being doc
LoadConfiguration(doc) ==
    /\ IF doc = NoKeys
       THEN UNCHANGED <<settings, enabled_tools>>
       ELSE /\ settings' = LoadedSettings(doc, settings)
            /\ enabled_tools' = LoadedTools(doc, enabled_tools, sessions)
    /\ UNCHANGED <<chat_history, actual_token_count, sessions, frame, fn_in, fn_out>>

\* SavedDocument without the showThinking key
SavedDocumentWithoutShowThinking(st, enabled, sess) ==
    "model" :> st.model
    @@ "enabledTools" :> [n \in AvailableToolNames(sess) |-> n \in enabled]
    @@ "contextSettings" :> ("retainContext" :> st.retain_context)
    @@ "modelSettings" :> ("thinkingMode" :> st.thinking_mode)
    @@ "modelConfig" :> [system_prompt |-> st.system_prompt, options |-> st.options]
    @@ "displaySettings" :> ("showToolExecution" :> st.show_tool_execution
                             @@ "showMetrics" :> st.show_metrics)
    @@ "hilSettings" :> ("enabled" :> TRUE)

\* config_data of save_configuration
SavedDocument(st, enabled, sess) ==
    "model" :> st.model
    @@ "enabledTools" :> [n \in AvailableToolNames(sess) |-> n \in enabled]
    @@ "contextSettings" :> ("retainContext" :> st.retain_context)
    @@ "modelSettings" :> ("thinkingMode" :> st.thinking_mode
                           @@ "showThinking" :> st.show_thinking)
    @@ "modelConfig" :> [system_prompt |-> st.system_prompt, options |-> st.options]
    @@ "displaySettings" :> ("showToolExecution" :> st.show_tool_execution
                             @@ "showMetrics" :> st.show_metrics)
    @@ "hilSettings" :> ("enabled" :> TRUE)

\* save_configuration(config_name): the document is built from the settings
\* and handed to the configuration manager; the service itself is unchanged
SaveConfiguration ==
    UNCHANGED vars

\* ClearedCount taken after the history was emptied
ClearedCountAfterClear(history) == 0

\* count = len(self.chat_history), the number clear_history reports
ClearedCount(history) == Len(history)

\* the record of a clear_history() that ran while the invocation was not idle
\* (one entry for clears that follow each other with nothing in between)
ClearLogged(f) ==
    IF f.pc = "idle" \/ (f.calls # <<>> /\ f.calls[Len(f.calls)].op = "clear")
    THEN f
    ELSE [f EXCEPT !.calls = Append(@, [op |-> "clear"])]

\* ClearHistory cancelling the invocations that are suspended
ClearHistoryCancels ==
    /\ chat_history' = <<>>
    /\ actual_token_count' = 0
    /\ frame' = [t \in TurnIds |->
                    IF frame[t].pc \in {"idle", "done", "failed"}
                    THEN ClearLogged(frame[t])
                    ELSE [ClearLogged(frame[t]) EXCEPT !.pc = "failed"]]
    /\ UNCHANGED <<sessions, enabled_tools, settings, fn_in, fn_out>>

\* clear_history()
ClearHistory ==
    /\ chat_history' = <<>>
    /\ actual_token_count' = 0
    /\ frame' = [t \in TurnIds |-> ClearLogged(frame[t])]
    /\ UNCHANGED <<sessions, enabled_tools, settings, fn_in, fn_out>>

\* ConnectToServers starting a new conversation
ConnectToServersNewChat(servers, enabled) ==
    /\ sessions' = [s \in servers |-> [session |-> <<"session", s>>]]
    /\ enabled_tools' = enabled
    /\ chat_history' = <<>>
    /\ UNCHANGED <<actual_token_count, settings, frame, fn_in, fn_out>>

\* connect_to_servers(): the sessions and the enabled tools are replaced by
\* what the connector returns
ConnectToServers(servers, enabled) ==
    /\ sessions' = [s \in servers |-> [session |-> <<"session", s>>]]
    /\ enabled_tools' = enabled
    /\ UNCHANGED <<chat_history, actual_token_count, settings, frame, fn_in, fn_out>>

\* set_enabled_tools(enabled_tools)
SetEnabledTools(enabled) ==
    /\ enabled_tools' = enabled
    /\ UNCHANGED <<chat_history, actual_token_count, sessions, settings, frame,
                   fn_in, fn_out>>

\* set_model(model_name)
SetModel(m) ==
    /\ settings' = [settings EXCEPT !.model = m]
    /\ UNCHANGED <<chat_history, actual_token_count, sessions, enabled_tools, frame,
                   fn_in, fn_out>>

\* set_model_config(config): the system prompt and the options come from it
SetModelConfig(config) ==
    /\ settings' = [settings EXCEPT !.system_prompt = config.system_prompt,
                                    !.options = config.options]
    /\ UNCHANGED <<chat_history, actual_token_count, sessions, enabled_tools, frame,
                   fn_in, fn_out>>

(* ------------------- the chat path of the terminal UI ------------------ *)
(* MCPCentralTUI keeps its own conversation: in the actions below            *)
(* chat_history, sessions (chat_sessions), enabled_tools, settings and frame  *)
(* stand for the fields of the application and its process_chat_query calls.  *)

\* the feature flags of MCPCentralTUI.__init__, the model of its model
\* manager and the switch of its human-in-the-loop manager
TuiInitSettings ==
    [ retain_context |-> TRUE, thinking_mode |-> TRUE, show_thinking |-> FALSE,
      show_tool_execution |-> TRUE, show_metrics |-> FALSE,
      model |-> "llama3", hil_enabled |-> TRUE ]

TuiInit ==
    /\ chat_history = <<>>
    /\ actual_token_count = 0
    /\ sessions = NoSessions
    /\ enabled_tools = {}
    /\ settings = TuiInitSettings
    /\ frame = [t \in TurnIds |-> IdleFrame]
    /\ fn_in = NoInput
    /\ fn_out = NoInput

\* chat_params and chat_params_followup of process_chat_query
TuiChatParams(model, messages, has_tools, tools, thinking_mode) ==
    [ op |-> "chat", model |-> model, messages |-> messages,
      has_tools |-> has_tools, tools |-> tools, options |-> "{}",
      think |-> IF has_tools /\ thinking_mode THEN "true" ELSE "absent" ]

\* the call_tool invocation made for the call at position k
TuiCallToolEvent(tool_calls, k, sess) ==
    LET sp == SplitName(tool_calls[k].name)
    IN  [ op |-> "call_tool", i |-> k, session |-> sess[sp.server_name],
          tool |-> sp.actual_tool_name, arguments |-> tool_calls[k].arguments ]

\* the loop over tool_calls run from position k up to its next await: a call
\* to an unknown server is passed over; call_tool is awaited for the first
\* call to a known one; after the last call the follow-up chat is awaited
TuiLoopFrom(f, messages, events, k0, sess) ==
    LET k == NextCall(f.tool_calls, k0, sess)
    IN  IF k <= Len(f.tool_calls)
        THEN [f EXCEPT !.pc = "call_tool", !.i = k, !.messages = messages,
                       !.calls = @ \o events
                                   \o <<TuiCallToolEvent(f.tool_calls, k, sess)>>]
        ELSE [f EXCEPT !.pc = "chat2", !.i = k, !.messages = messages,
                       !.calls = @ \o events
                                   \o <<TuiChatParams(f.model, messages, FALSE, {}, FALSE)>>]

\* process_chat_query(query) is called: the messages are the current query
\* alone, and ollama.chat is awaited with the initial parameters
TuiStartQuery(t, q) ==
    /\ frame[t].pc = "idle"
    /\ Len(chat_history) < MaxTurns
    /\ LET messages == <<[role |-> "user", content |-> q]>>
       IN  frame' = [frame EXCEPT ![t] =
                [ IdleFrame EXCEPT
                    !.pc = "chat1", !.query = q, !.messages = messages,
                    !.available_tools = enabled_tools,
                    !.model = settings.model, !.model_options = "{}",
                    !.calls = <<TuiChatParams(settings.model, messages, TRUE,
                                              enabled_tools, settings.thinking_mode)>>,
                    !.h0 = chat_history, !.s0 = DOMAIN sessions ]]
    /\ UNCHANGED <<chat_history, actual_token_count, sessions, enabled_tools,
                   settings, fn_in, fn_out>>

\* ollama.chat returns the stream; process_streaming_response is awaited
TuiChatReturns(t) ==
    /\ frame[t].pc \in {"chat1", "chat2"}
    /\ frame' = [frame EXCEPT ![t].pc = IF @ = "chat1" THEN "stream1" ELSE "stream2"]
    /\ UNCHANGED <<chat_history, actual_token_count, sessions, enabled_tools,
                   settings, fn_in, fn_out>>

\* the awaited call raises: the exception is logged by the except clause (or
\* the worker is cancelled) and nothing is appended
TuiAwaitRaises(t) ==
    /\ frame[t].pc \in {"chat1", "stream1", "call_tool", "chat2", "stream2"}
    /\ frame' = [frame EXCEPT ![t].pc = "failed"]
    /\ UNCHANGED <<chat_history, actual_token_count, sessions, enabled_tools,
                   settings, fn_in, fn_out>>

\* the initial stream ends: with tool calls the loop runs up to its first
\* await, without the turn is appended
TuiAccumulate1(t, text, tcs) ==
    LET f == [frame[t] EXCEPT !.tool_calls = tcs, !.response_text = text,
                              !.calls = Append(@, [op |-> "stream", text |-> text,
                                                   n_calls |-> Len(tcs), eval |-> 0])]
    IN  /\ frame[t].pc = "stream1"
        /\ IF tcs # <<>>
           THEN /\ frame' = [frame EXCEPT ![t] =
                                TuiLoopFrom(f, f.messages, <<>>, 1, sessions)]
                /\ UNCHANGED chat_history
           ELSE /\ frame' = [frame EXCEPT ![t] = [f EXCEPT !.pc = "done"]]
                /\ chat_history' = Append(chat_history, [query |-> f.query, response |-> text])
        /\ UNCHANGED <<actual_token_count, sessions, enabled_tools, settings,
                       fn_in, fn_out>>

\* call_tool returns: the text of the first content item becomes a tool
\* message and the loop runs on; a result without content raises IndexError
TuiCallToolReturns(t, content) ==
    LET f == frame[t]
    IN  /\ f.pc = "call_tool"
        /\ IF content = <<>>
           THEN frame' = [frame EXCEPT ![t].pc = "failed",
                                       ![t].calls = Append(@, ResultEvent(f.i, content))]
           ELSE frame' = [frame EXCEPT ![t] =
                    TuiLoopFrom(f, Append(f.messages,
                                          ToolMessage(f.tool_calls[f.i].name, content)),
                                <<ResultEvent(f.i, content)>>, f.i + 1, sessions)]
        /\ UNCHANGED <<chat_history, actual_token_count, sessions, enabled_tools,
                       settings, fn_in, fn_out>>

\* the follow-up stream ends: the turn is appended with its text
TuiAccumulate2(t, text) ==
    /\ frame[t].pc = "stream2"
    /\ frame' = [frame EXCEPT ![t].pc = "done", ![t].response_text = text,
                              ![t].calls = Append(@, [op |-> "stream", text |-> text,
                                                      n_calls |-> 0, eval |-> 0])]
    /\ chat_history' = Append(chat_history, [query |-> frame[t].query, response |-> text])
    /\ UNCHANGED <<actual_token_count, sessions, enabled_tools, settings, fn_in, fn_out>>

\* process_chat_query has returned
TuiReturn(t) ==
    /\ frame[t].pc \in {"done", "failed"}
    /\ frame' = [frame EXCEPT ![t] = IdleFrame]
    /\ UNCHANGED <<chat_history, actual_token_count, sessions, enabled_tools,
                   settings, fn_in, fn_out>>

\* connect_and_start_chat(): the sessions and the tools the connector returns
TuiConnectAndStartChat(servers, enabled) ==
    /\ sessions' = [s \in servers |-> [session |-> <<"session", s>>]]
    /\ enabled_tools' = enabled
    /\ UNCHANGED <<chat_history, actual_token_count, settings, frame, fn_in, fn_out>>

\* ChatSettingsScreen.on_switch_changed for the three switches the chat path
\* could depend on
TuiSwitchChanged(id, value) ==
    /\ id \in {"retain_context", "thinking_mode", "hil_switch"}
    /\ settings' = IF id = "retain_context" THEN [settings EXCEPT !.retain_context = value]
                   ELSE IF id = "thinking_mode" THEN [settings EXCEPT !.thinking_mode = value]
                   ELSE [settings EXCEPT !.hil_enabled = value]
    /\ UNCHANGED <<chat_history, actual_token_count, sessions, enabled_tools, frame,
                   fn_in, fn_out>>

\* the Clear Chat History button of ChatSettingsScreen
TuiClearHistory ==
    /\ chat_history' = <<>>
    /\ UNCHANGED <<actual_token_count, sessions, enabled_tools, settings, frame,
                   fn_in, fn_out>>

(* ------------------- the server tab of the terminal UI ----------------- *)
(* In the actions below settings stands for the fields of MCPCentralTUI that  *)
(* the Installed Servers tab uses, fn_in for the uninstall worker and fn_out  *)
(* for the record of what the worker stopped.                                 *)

\* the servers the table lists, and self.selected_server = None
InstalledServers == {"s1", "s2"}
NoServer == "None"

\* update_installed_buttons(): the disabled flags of the Start, Stop and
\* Uninstall buttons for a selection and the processes that are running
UpdateInstalledButtons(st) ==
    IF st.selected_server # NoServer
    THEN LET is_running == st.selected_server \in st.running_processes
         IN  [st EXCEPT !.start_disabled = is_running,
                        !.stop_disabled = ~is_running,
                        !.uninstall_disabled = is_running]
    ELSE [st EXCEPT !.start_disabled = TRUE, !.stop_disabled = TRUE,
                    !.uninstall_disabled = TRUE]

\* stop_server(): the processes it terminates and pops, those of the selected
\* server if that one is running, whatever server the caller has in mind
StoppedServer(st) ==
    IF st.selected_server = NoServer \/ st.selected_server \notin st.running_processes
    THEN {}
    ELSE {st.selected_server}

NoWorker == [kind |-> "worker", pc |-> "none", server_name |-> NoServer]
NoEffects == [kind |-> "effects", was_running |-> FALSE, stopped |-> {}]

\* MCPCentralTUI.__init__ and the table filled by load_initial_data
UninstallInit ==
    /\ chat_history = <<>>
    /\ actual_token_count = 0
    /\ sessions = NoSessions
    /\ enabled_tools = {}
    /\ settings = [ selected_server |-> NoServer, running_processes |-> {},
                    installed |-> InstalledServers, start_disabled |-> TRUE,
                    stop_disabled |-> TRUE, uninstall_disabled |-> TRUE ]
    /\ frame = [t \in TurnIds |-> IdleFrame]
    /\ fn_in = NoWorker
    /\ fn_out = NoEffects

\* on_data_table_row_selected for a row of the server table
RowSelected(server) ==
    /\ server \in settings.installed
    /\ settings' = UpdateInstalledButtons([settings EXCEPT !.selected_server = server])
    /\ UNCHANGED <<chat_history, actual_token_count, sessions, enabled_tools, frame,
                   fn_in, fn_out>>

\* the Start button: start_server(); the refresh it calls is a coroutine
\* that is never awaited, so the buttons stay as they are
StartPressed ==
    /\ ~settings.start_disabled
    /\ settings' = IF settings.selected_server = NoServer THEN settings
                   ELSE [settings EXCEPT !.running_processes =
                                            @ \cup {settings.selected_server}]
    /\ UNCHANGED <<chat_history, actual_token_count, sessions, enabled_tools, frame,
                   fn_in, fn_out>>

\* the Stop button: stop_server()
StopPressed ==
    /\ ~settings.stop_disabled
    /\ settings' = [settings EXCEPT !.running_processes =
                                        @ \ StoppedServer(settings)]
    /\ UNCHANGED <<chat_history, actual_token_count, sessions, enabled_tools, frame,
                   fn_in, fn_out>>

\* the Uninstall button: uninstall_selected_server() hands the selected
\* server to an exclusive worker, which replaces a worker still running
UninstallPressed ==
    /\ ~settings.uninstall_disabled
    /\ IF settings.selected_server = NoServer
       THEN UNCHANGED <<fn_in, fn_out>>
       ELSE /\ fn_in' = [kind |-> "worker", pc |-> "scheduled",
                         server_name |-> settings.selected_server]
            /\ fn_out' = NoEffects
    /\ UNCHANGED <<chat_history, actual_token_count, sessions, enabled_tools, frame,
                   settings>>

\* uninstall_worker(server_name) runs up to its first await: stop_server() if
\* the server is running, then the uninstall command is started
WorkerStarts ==
    /\ fn_in.pc = "scheduled"
    /\ LET was_running == fn_in.server_name \in settings.running_processes
           stopped == IF was_running
                      THEN StoppedServer(settings) ELSE {}
       IN  /\ settings' = [settings EXCEPT !.running_processes = @ \ stopped]
           /\ fn_out' = [kind |-> "effects", was_running |-> was_running,
                         stopped |-> stopped]
    /\ fn_in' = [fn_in EXCEPT !.pc = "uninstalling"]
    /\ UNCHANGED <<chat_history, actual_token_count, sessions, enabled_tools, frame>>

\* uninstall_server returns; action_refresh_servers is awaited
WorkerUninstallReturns ==
    /\ fn_in.pc = "uninstalling"
    /\ fn_in' = [fn_in EXCEPT !.pc = "refreshing"]
    /\ settings' = [settings EXCEPT !.installed = @ \ {fn_in.server_name}]
    /\ UNCHANGED <<chat_history, actual_token_count, sessions, enabled_tools, frame,
                   fn_out>>

\* the refresh returns (the table is rebuilt, the buttons updated); the
\* selection is dropped and the buttons are updated again
WorkerRefreshReturns ==
    /\ fn_in.pc = "refreshing"
    /\ fn_in' = [fn_in EXCEPT !.pc = "finished"]
    /\ settings' = UpdateInstalledButtons([settings EXCEPT !.selected_server = NoServer])
    /\ UNCHANGED <<chat_history, actual_token_count, sessions, enabled_tools, frame,
                   fn_out>>

\* uninstall_server or the refresh raises: the except clause selects the
\* error log
WorkerRaises ==
    /\ fn_in.pc \in {"uninstalling", "refreshing"}
    /\ fn_in' = [fn_in EXCEPT !.pc = "finished"]
    /\ settings' = [settings EXCEPT !.selected_server = "uninstall_error"]
    /\ UNCHANGED <<chat_history, actual_token_count, sessions, enabled_tools, frame,
                   fn_out>>

NextUninstall ==
    \/ \E server \in InstalledServers : RowSelected(server)
    \/ StartPressed
    \/ StopPressed
    \/ UninstallPressed
    \/ WorkerStarts
    \/ WorkerUninstallReturns
    \/ WorkerRefreshReturns
    \/ WorkerRaises

SpecUninstall == UninstallInit /\ [][NextUninstall]_vars

(* --------------------------- specification ----------------------------- *)

ToolNames == {NameAS}

\* one step of the process_query invocation t, its collaborators answering
\* from the given sets
TurnStepWith(t, shows, texts, lists, metricses, results) ==
    \/ \E info \in shows : Probe1(t, info)
    \/ ProbeCancelled(t)
    \/ ChatReturns(t)
    \/ ChatRaises(t)
    \/ StreamRaises(t)
    \/ \E text \in texts, tcs \in lists, metrics \in metricses :
            Accumulate1(t, text, tcs, metrics)
    \/ \E ok \in BOOLEAN : HilReturns(t, ok)
    \/ HilRaises(t)
    \/ \E content \in results : CallToolReturns(t, content)
    \/ CallToolRaises(t)
    \/ \E info \in shows : Probe2(t, info)
    \/ \E text \in texts, metrics \in metricses : Accumulate2(t, text, metrics)
    \/ Return(t)

\* one step of the process_query invocation t
TurnStep(t) ==
    TurnStepWith(t, ShowResultsTwo, Texts, ToolCallLists, MetricsSet, ToolResults)

\* the caller keeps the discipline of one turn at a time, and changes the
\* sessions, the tools and the history only between turns
Next ==
    \/ \E t \in SeqTurns, q \in Queries : NoTurnInFlight /\ StartQuery(t, q)
    \/ \E t \in SeqTurns : TurnStep(t)
    \/ NoTurnInFlight /\ ClearHistory
    \/ \E servers \in ServerSets, enabled \in SUBSET ToolNames :
            NoTurnInFlight /\ ConnectToServers(servers, enabled)
    \/ \E enabled \in SUBSET ToolNames : NoTurnInFlight /\ SetEnabledTools(enabled)

Spec == Init /\ [][Next]_vars

\* the first turn of a conversation, the model and the streams answering from
\* the wider sets and the tool-call lists drawn from the narrower one; the
\* model and its configuration may be changed while the turn is suspended
NextAnswers ==
    \/ \E t \in SeqTurns :
            NoTurnInFlight /\ chat_history = <<>> /\ StartQuery(t, "q1")
    \/ \E t \in SeqTurns :
            TurnStepWith(t, ShowResultsTwo, TextsOrNone, ToolCallListsTwo, MetricsSet,
                         ToolResultsTwo)
    \/ NoTurnInFlight /\ ConnectToServers({<<"a">>}, ToolNames)
    \/ \E m \in Models : SetModel(m)
    \/ \E config \in ModelConfigs : SetModelConfig(config)

SpecAnswers == Init /\ [][NextAnswers]_vars

\* the first turn of a conversation with every outcome of the metadata query
\* at both probes, and at most one tool call
NextProbe ==
    \/ \E t \in SeqTurns :
            NoTurnInFlight /\ chat_history = <<>> /\ StartQuery(t, "q1")
    \/ \E t \in SeqTurns :
            TurnStepWith(t, ShowResults, {"r1"}, SeqsUpTo(ToolCallsTwo, 1), MetricsSet,
                         ToolResultsTwo)
    \/ NoTurnInFlight /\ ConnectToServers({<<"a">>}, ToolNames)

SpecProbe == Init /\ [][NextProbe]_vars

\* the documents loaded while turns run: none found, thinking mode switched
\* off, and a model section without keys
LiveDocuments ==
    { NoKeys,
      "modelSettings" :> ("thinkingMode" :> FALSE),
      "modelSettings" :> NoKeys }

\* turns one at a time, with at most one tool call each, while the caller
\* connects servers, changes the tools, the model and its configuration, and
\* loads and saves configurations at any moment, also while a turn is
\* suspended; the history is cleared between turns
NextLive ==
    \/ \E t \in SeqTurns : NoTurnInFlight /\ StartQuery(t, "q1")
    \/ \E t \in SeqTurns :
            TurnStepWith(t, ShowResultsTwo, {"r1"}, SeqsUpTo(ToolCallsTwo, 1),
                         {[present |-> FALSE, eval_count |-> 0]}, ToolResultsTwo)
    \/ NoTurnInFlight /\ ClearHistory
    \/ \E servers \in {{}, {<<"a">>}}, enabled \in SUBSET ToolNames :
            ConnectToServers(servers, enabled)
    \/ \E enabled \in SUBSET ToolNames : SetEnabledTools(enabled)
    \/ \E m \in Models : SetModel(m)
    \/ \E config \in ModelConfigs : SetModelConfig(config)
    \/ \E doc \in LiveDocuments : LoadConfiguration(doc)
    \/ SaveConfiguration

SpecLive == Init /\ [][NextLive]_vars

\* the query and the tool result of each of two overlapping invocations
OverlapQuery(t) == IF t = 1 THEN "q1" ELSE "q2"
OverlapResults(t) == {<<[text |-> IF t = 1 THEN "x" ELSE "y"]>>}

\* process_query is called again while an earlier call is suspended: nothing
\* in the code prevents it; the servers are connected between turns
NextOverlap ==
    \/ \E t \in TurnIds : StartQuery(t, OverlapQuery(t))
    \/ \E t \in TurnIds :
            TurnStepWith(t, {ShowThinking}, {"r1"}, SeqsUpTo(ToolCallsTwo, 1),
                         {[present |-> FALSE, eval_count |-> 0],
                          [present |-> TRUE, eval_count |-> 1]},
                         OverlapResults(t))
    \/ NoTurnInFlight /\ ConnectToServers({<<"a">>}, ToolNames)

SpecOverlap == Init /\ [][NextOverlap]_vars

\* one turn at a time, while clear_history() is called at any moment, also
\* while the turn is suspended at a model or tool call
NextClearLive ==
    \/ \E t \in SeqTurns : NoTurnInFlight /\ StartQuery(t, "q1")
    \/ \E t \in SeqTurns :
            TurnStepWith(t, {ShowThinking}, Texts, SeqsUpTo(ToolCallsTwo, 1),
                         {[present |-> FALSE, eval_count |-> 0],
                          [present |-> TRUE, eval_count |-> 1]},
                         {<<[text |-> "x"]>>})
    \/ ClearHistory
    \/ NoTurnInFlight /\ ConnectToServers({<<"a">>}, ToolNames)

SpecClearLive == Init /\ [][NextClearLive]_vars

\* one query at a time; the screens are used between queries
NextTui ==
    \/ \E t \in SeqTurns, q \in Queries : NoTurnInFlight /\ TuiStartQuery(t, q)
    \/ \E t \in SeqTurns : TuiChatReturns(t)
    \/ \E t \in SeqTurns : TuiAwaitRaises(t)
    \/ \E t \in SeqTurns, text \in Texts, tcs \in ToolCallListsTwo :
            TuiAccumulate1(t, text, tcs)
    \/ \E t \in SeqTurns, content \in ToolResultsTwo : TuiCallToolReturns(t, content)
    \/ \E t \in SeqTurns, text \in Texts : TuiAccumulate2(t, text)
    \/ \E t \in SeqTurns : TuiReturn(t)
    \/ \E enabled \in SUBSET ToolNames :
            NoTurnInFlight /\ TuiConnectAndStartChat({<<"a">>}, enabled)
    \/ \E id \in {"retain_context", "thinking_mode", "hil_switch"}, value \in BOOLEAN :
            NoTurnInFlight /\ TuiSwitchChanged(id, value)
    \/ NoTurnInFlight /\ TuiClearHistory

SpecTui == TuiInit /\ [][NextTui]_vars

\* every string of at most MaxNameLen characters
AllNames == SeqsUpTo(Chars, MaxNameLen)

\* the keys a registry may hold when the split is checked on its own
RegistryKeys == {<<>>, <<"a">>, <<"b">>}

\* a registry and a qualified name, before the name is resolved
InitSplit ==
    /\ chat_history = <<>>
    /\ actual_token_count = 0
    /\ \E keys \in SUBSET RegistryKeys :
            sessions = [s \in keys |-> [session |-> <<"session", s>>]]
    /\ enabled_tools = {}
    /\ settings = InitSettings
    /\ frame = [t \in TurnIds |-> IdleFrame]
    /\ fn_in \in {[kind |-> "tool_name", tool_name |-> n] : n \in AllNames}
    /\ fn_out = NoInput

\* the split of the qualified name and the unknown-server test, on fn_in
ResolveName ==
    /\ fn_in.kind = "tool_name"
    /\ fn_out = NoInput
    /\ fn_out' = [ kind |-> "resolved",
                   split |-> SplitName(fn_in.tool_name),
                   unknown |-> UnknownServer(fn_in.tool_name, sessions) ]
    /\ UNCHANGED <<chat_history, actual_token_count, sessions, enabled_tools,
                   settings, frame, fn_in>>

SpecSplit == InitSplit /\ [][ResolveName]_vars

\* every chat_history of at most MaxHistory completed turns
Histories == SeqsUpTo([query : Queries, response : Texts], MaxHistory)

\* a conversation with its settings and a query, before its messages are built
InitBuild ==
    /\ chat_history \in Histories
    /\ actual_token_count = 0
    /\ sessions = NoSessions
    /\ enabled_tools = {}
    /\ \E retain \in BOOLEAN, config \in ModelConfigs :
            settings = [InitSettings EXCEPT !.retain_context = retain,
                                            !.system_prompt = config.system_prompt,
                                            !.options = config.options]
    /\ frame = [t \in TurnIds |-> IdleFrame]
    /\ \E q \in Queries :
            fn_in = [kind |-> "query", query |-> q, history |-> chat_history]
    /\ fn_out = NoInput

\* the messages array of process_query, built for the query in fn_in
BuildStep ==
    /\ fn_in.kind = "query"
    /\ fn_out = NoInput
    /\ fn_out' = [ kind |-> "messages",
                   messages |-> BuildMessages(fn_in.query, chat_history,
                                              settings.retain_context,
                                              settings.system_prompt) ]
    /\ UNCHANGED <<chat_history, actual_token_count, sessions, enabled_tools,
                   settings, frame, fn_in>>

SpecBuild == InitBuild /\ [][BuildStep]_vars

\* the histories cleared when clear_history is checked on its own
ClearedHistories == SeqsUpTo([query : {"q1"}, response : Texts], MaxHistory)

\* a conversation before clear_history is called on it
InitClear ==
    /\ chat_history \in ClearedHistories
    /\ actual_token_count \in 0..MaxTokens
    /\ sessions = NoSessions
    /\ enabled_tools = {}
    /\ settings = InitSettings
    /\ frame = [t \in TurnIds |-> IdleFrame]
    /\ fn_in = [kind |-> "context", history |-> chat_history,
                tokens |-> actual_token_count]
    /\ fn_out = [kind |-> "reports", reports |-> <<>>]

\* clear_history() called, at most twice, its reported count kept in fn_out
ClearHistoryCall ==
    /\ fn_in.kind = "context"
    /\ Len(fn_out.reports) < 2
    /\ fn_out' = [fn_out EXCEPT !.reports = Append(@, ClearedCount(chat_history))]
    /\ chat_history' = <<>>
    /\ actual_token_count' = 0
    /\ UNCHANGED <<sessions, enabled_tools, settings, frame, fn_in>>

SpecClear == InitClear /\ [][ClearHistoryCall]_vars

\* the fragments a stream is made of: a slice of text, the name of call 0, two
\* slices of its arguments, and call 1 complete in one fragment
Fragments ==
    { [text |-> <<"t">>, tool_calls |-> <<>>],
      [text |-> <<>>, tool_calls |-> <<[index |-> 0, name |-> <<"n">>, arguments |-> <<>>]>>],
      [text |-> <<>>, tool_calls |-> <<[index |-> 0, name |-> <<>>, arguments |-> <<"x">>]>>],
      [text |-> <<>>, tool_calls |-> <<[index |-> 0, name |-> <<>>, arguments |-> <<"y">>]>>],
      [text |-> <<"u">>, tool_calls |-> <<[index |-> 1, name |-> <<"m">>, arguments |-> <<"z">>]>>] }

\* a stream of at most MaxFragments fragments, before it is consumed
InitStream ==
    /\ chat_history = <<>>
    /\ actual_token_count = 0
    /\ sessions = NoSessions
    /\ enabled_tools = {}
    /\ settings = InitSettings
    /\ frame = [t \in TurnIds |-> IdleFrame]
    /\ \E fs \in SeqsUpTo(Fragments, MaxFragments) :
            fn_in = [kind |-> "stream", fragments |-> fs]
    /\ fn_out = EmptyAccumulator

\* the accumulator consumes the next fragment of the stream
ConsumeFragment ==
    /\ fn_in.kind = "stream"
    /\ fn_out.kind = "accumulating"
    /\ fn_out.pos < Len(fn_in.fragments)
    /\ fn_out' = Accumulated(fn_out, fn_in.fragments[fn_out.pos + 1])
    /\ UNCHANGED <<chat_history, actual_token_count, sessions, enabled_tools,
                   settings, frame, fn_in>>

\* the stream has terminated: process_streaming_response returns
StreamEnds ==
    /\ fn_in.kind = "stream"
    /\ fn_out.kind = "accumulating"
    /\ fn_out.pos = Len(fn_in.fragments)
    /\ fn_out' = Finalized(fn_out)
    /\ UNCHANGED <<chat_history, actual_token_count, sessions, enabled_tools,
                   settings, frame, fn_in>>

NextStream == ConsumeFragment \/ StreamEnds

SpecStream == InitStream /\ [][NextStream]_vars

\* every value the configurable settings may have
AllSettings ==
    [ retain_context : BOOLEAN, thinking_mode : BOOLEAN, show_thinking : BOOLEAN,
      show_tool_execution : BOOLEAN, show_metrics : BOOLEAN,
      model : Models, system_prompt : {"", "sys"},
      options : {"default_options", "o2"} ]

\* a service with its settings and enabled tools, and a stored document,
\* before load_configuration is called
InitLoad ==
    /\ chat_history = <<>>
    /\ actual_token_count = 0
    /\ sessions = [s \in {<<"a">>} |-> [session |-> <<"session", s>>]]
    /\ enabled_tools \in SUBSET ToolNames
    /\ settings \in {st \in AllSettings :
                        [system_prompt |-> st.system_prompt, options |-> st.options]
                            \in ModelConfigs}
    /\ frame = [t \in TurnIds |-> IdleFrame]
    /\ \E doc \in ConfigDocuments :
            fn_in = [kind |-> "document", doc |-> doc, settings |-> settings,
                     enabled_tools |-> enabled_tools]
    /\ fn_out = NoInput

\* LoadConfigurationCall falling back to the defaults when nothing is found
LoadConfigurationCallDefaults ==
    /\ fn_in.kind = "document"
    /\ fn_out = NoInput
    /\ fn_out' = [kind |-> "loaded", found |-> fn_in.doc # NoKeys]
    /\ IF fn_in.doc = NoKeys
       THEN /\ settings' = InitSettings
            /\ UNCHANGED enabled_tools
       ELSE /\ settings' = LoadedSettings(fn_in.doc, settings)
            /\ enabled_tools' = LoadedTools(fn_in.doc, enabled_tools, sessions)
    /\ UNCHANGED <<chat_history, actual_token_count, sessions, frame, fn_in>>

\* load_configuration() called once on the stored document
LoadConfigurationCall ==
    /\ fn_in.kind = "document"
    /\ fn_out = NoInput
    /\ fn_out' = [kind |-> "loaded", found |-> fn_in.doc # NoKeys]
    /\ IF fn_in.doc = NoKeys
       THEN UNCHANGED <<settings, enabled_tools>>
       ELSE /\ settings' = LoadedSettings(fn_in.doc, settings)
            /\ enabled_tools' = LoadedTools(fn_in.doc, enabled_tools, sessions)
    /\ UNCHANGED <<chat_history, actual_token_count, sessions, frame, fn_in>>

SpecLoad == InitLoad /\ [][LoadConfigurationCall]_vars

(* ------------------------- reading a turn's record --------------------- *)

IsToolMessage(m) == m.role = "tool"
IsHil(e) == e.op = "hil"
IsCallTool(e) == e.op = "call_tool"
IsChat(e) == e.op = "chat"
IsResult(e) == e.op = "result"
IsStream(e) == e.op = "stream"
IsProbe(e) == e.op = "probe"
\* the invocations that belong to one position of tool_calls
HasPosition(e) == e.op \in {"hil", "hil_raised", "call_tool", "call_tool_raised", "result"}

\* the tool messages of a turn's message list, in list order
ToolMsgs(f) == SelectSeq(f.messages, IsToolMessage)
\* the invocations a turn has made so far, by kind, in invocation order
HilEvents(f) == SelectSeq(f.calls, IsHil)
CallToolEvents(f) == SelectSeq(f.calls, IsCallTool)
ChatEvents(f) == SelectSeq(f.calls, IsChat)
ResultEvents(f) == SelectSeq(f.calls, IsResult)
StreamEvents(f) == SelectSeq(f.calls, IsStream)
ProbeEvents(f) == SelectSeq(f.calls, IsProbe)

\* the turn has entered the tool phase
InToolPhase(f) ==
    \/ f.pc \in {"hil", "call_tool", "probe2", "chat2", "stream2"}
    \/ f.pc \in {"done", "failed"} /\ f.i > 0

\* the turn has left the for loop over tool_calls by exhausting it
LoopDone(f) == InToolPhase(f) /\ f.i > Len(f.tool_calls)

\* the sum of the eval counts of a sequence of stream results
RECURSIVE SumEval(_)
SumEval(streams) ==
    IF streams = <<>> THEN 0 ELSE Head(streams).eval + SumEval(Tail(streams))

IsCallToolRaised(e) == e.op = "call_tool_raised"

\* the metadata query failed: it raised, or gave no or empty capabilities
ShowFailed(info) == info.raises \/ ~info.has_capabilities \/ info.capabilities = {}

\* the invocations of the record that belong to one tool call
PositionEvents(f) == SelectSeq(f.calls, HasPosition)

\* the tool messages that a sequence of invocations calls for, in its order:
\* the skip message of a rejected call, the result message of a returned one
RECURSIVE MessagesOfEvents(_, _)
MessagesOfEvents(f, events) ==
    IF events = <<>> THEN <<>>
    ELSE LET e == Head(events)
             m == IF e.op = "hil" /\ ~e.ret
                  THEN << [role |-> "tool", content |-> SkippedByUser, name |-> e.name] >>
                  ELSE IF e.op = "result" /\ e.content # <<>>
                  THEN << [role |-> "tool", content |-> e.content[1].text,
                           name |-> f.tool_calls[e.i].name] >>
                  ELSE <<>>
         IN  m \o MessagesOfEvents(f, Tail(events))

(* ------------------------------ claims --------------------------------- *)

\* C1: in every turn that ran the tool phase, the number of role="tool"
\* messages appended to the turn's message list equals the number of tool
\* calls the model returned (one tool message per call, executed, rejected or
\* addressed to an unknown server).
C1_OneToolMessagePerCall ==
    \A t \in TurnIds :
        LoopDone(frame[t]) => Len(ToolMsgs(frame[t])) = Len(frame[t].tool_calls)

\* C2: a turn is appended to chat_history exactly once or not at all: a call
\* that has returned has appended exactly its {query, response} entry to the
\* history it started from, a call that failed (initial call, its stream,
\* follow-up call) has appended nothing, and a call still running has
\* appended nothing yet.
C2_TurnAppendedOnceOrNotAtAll ==
    \A t \in TurnIds :
        LET f == frame[t]
        IN  /\ f.pc = "done" =>
                chat_history = Append(f.h0, [query |-> f.query, response |-> f.response_text])
            /\ (InFlight(t) /\ f.pc # "done") => chat_history = f.h0

\* C2 witness: a turn that started from a one-entry history failed at its
\* follow-up call or stream, with the history as it was.
C2_Witness ==
    \E t \in TurnIds :
        /\ frame[t].pc = "failed"
        /\ Len(ChatEvents(frame[t])) = 2
        /\ Len(frame[t].h0) = 1
        /\ chat_history = frame[t].h0

\* C3: a turn that was cancelled or failed while suspended in a streaming
\* model call or a remote tool call leaves chat_history and
\* actual_token_count at the values they had when the turn started.
C3_ContextUntouchedOnFailure ==
    \A t \in TurnIds :
        frame[t].pc = "failed" =>
            /\ chat_history = frame[t].h0
            /\ actual_token_count = frame[t].c0

\* C4: in the tool phase hil_callback is invoked exactly once for each tool
\* call of the list the model returned, before that call is dispatched.
C4_ApprovalOncePerToolCall ==
    \A t \in TurnIds :
        LET f == frame[t]
        IN  /\ \A p \in 1..Len(f.calls) :
                  IsCallTool(f.calls[p]) =>
                      \E r \in 1..(p - 1) : IsHil(f.calls[r]) /\ f.calls[r].i = f.calls[p].i
            /\ LoopDone(f) =>
                  \A k \in 1..Len(f.tool_calls) :
                      Cardinality({p \in 1..Len(f.calls) :
                                      IsHil(f.calls[p]) /\ f.calls[p].i = k}) = 1

\* tool_name names server s: s is non-empty, holds no dot, and tool_name is s,
\* a dot, and the tool's name
RoutesTo(tool_name, s) ==
    /\ s # <<>>
    /\ \A j \in 1..Len(s) : s[j] # "."
    /\ Len(tool_name) > Len(s)
    /\ SubSeq(tool_name, 1, Len(s)) = s
    /\ tool_name[Len(s) + 1] = "."

\* tool_name names a server of the registry
HasSession(tool_name, sess) == \E s \in DOMAIN sess : RoutesTo(tool_name, s)

\* C5: call_tool is invoked for a tool call only after the approval callback
\* has returned true for that same call (same qualified name and arguments);
\* a rejected call is never invoked on any session.
C5_DispatchOnlyAfterApproval ==
    \A t \in TurnIds :
        LET f == frame[t]
            c == f.calls
        IN  /\ \A p \in 1..Len(c) :
                  IsCallTool(c[p]) =>
                      /\ p > 1
                      /\ IsHil(c[p - 1])
                      /\ c[p - 1].ret = TRUE
                      /\ c[p - 1].i = c[p].i
                      /\ c[p - 1].name = f.tool_calls[c[p].i].name
                      /\ c[p - 1].arguments = c[p].arguments
            /\ \A p \in 1..Len(c), r \in 1..Len(c) :
                  (IsHil(c[p]) /\ ~c[p].ret /\ IsCallTool(c[r])) => c[r].i # c[p].i

\* C5 witness: a tool phase in which one call was rejected and another one
\* was approved and invoked.
C5_Witness ==
    \E t \in TurnIds :
        /\ \E p \in 1..Len(frame[t].calls) :
              IsHil(frame[t].calls[p]) /\ ~frame[t].calls[p].ret
        /\ \E p \in 1..Len(frame[t].calls) : IsCallTool(frame[t].calls[p])

\* C6: a tool call that the approval callback rejects gets exactly one tool
\* message, with the fixed text "Tool call was skipped by user" and the
\* qualified name of the call, and processing continues with the next call.
C6_RejectedCallGetsSkipMessage ==
    \A t \in TurnIds :
        LET f == frame[t]
            hs == HilEvents(f)
            ms == ToolMsgs(f)
        IN  /\ Len(ms) <= Len(hs)
            /\ \A j \in 1..Len(hs) :
                  ~hs[j].ret =>
                      /\ Len(ms) >= j
                      /\ ms[j] = [ role |-> "tool",
                                   content |-> "Tool call was skipped by user",
                                   name |-> f.tool_calls[hs[j].i].name ]
            /\ (f.calls # <<>> /\ IsHil(f.calls[Len(f.calls)])
                    /\ ~f.calls[Len(f.calls)].ret) =>
                  /\ f.pc \in {"hil", "probe2", "failed"}
                  /\ f.i > f.calls[Len(f.calls)].i
                  /\ f.pc = "hil" <=> f.i <= Len(f.tool_calls)

\* C6 witness: the first of two calls to a known server was rejected and the
\* turn is awaiting the approval of the second.
C6_Witness ==
    \E t \in TurnIds :
        /\ frame[t].pc = "hil"
        /\ Len(HilEvents(frame[t])) = 1
        /\ ~HilEvents(frame[t])[1].ret
        /\ Len(ToolMsgs(frame[t])) = 1

\* C7: the tool calls of one tool phase are processed strictly sequentially in
\* the order the model returned them: the approval of a call starts only when
\* every earlier call is fully processed, and the tool messages stand in the
\* same relative order as their calls.
C7_SequentialInModelOrder ==
    \A t \in TurnIds :
        LET f == frame[t]
            c == f.calls
            hs == HilEvents(f)
            ms == ToolMsgs(f)
        IN  /\ \A p \in 1..Len(c), r \in 1..Len(c) :
                  (p < r /\ HasPosition(c[p]) /\ HasPosition(c[r])) =>
                      /\ c[p].i <= c[r].i
                      /\ (IsHil(c[p]) /\ IsHil(c[r])) => c[p].i < c[r].i
            /\ Len(ms) >= Len(hs) - 1
            /\ Len(ms) <= Len(hs)
            /\ \A j \in 1..Len(ms) : ms[j].name = f.tool_calls[hs[j].i].name

\* C7 witness: a tool phase that produced the tool messages of two calls with
\* different names.
C7_Witness ==
    \E t \in TurnIds :
        /\ LoopDone(frame[t])
        /\ Len(ToolMsgs(frame[t])) = 2
        /\ ToolMsgs(frame[t])[1].name # ToolMsgs(frame[t])[2].name

\* C8: routing splits a qualified name on its first dot only: the server name
\* is the text before the first dot and the tool name everything after it
\* (further dots stay in the tool name); a name with no dot, or with an empty
\* server part, has no server and is an unknown server whatever sessions exist.
C8_SplitOnFirstDot ==
    fn_out.kind = "resolved" =>
        LET n == fn_in.tool_name
            r == fn_out.split
        IN  /\ (\E k \in 1..Len(n) : n[k] = ".") =>
                  /\ ~r.is_none
                  /\ \A j \in 1..Len(r.server_name) : r.server_name[j] # "."
                  /\ r.server_name \o <<".">> \o r.actual_tool_name = n
                  /\ fn_out.unknown <=>
                        (r.server_name = <<>> \/ r.server_name \notin DOMAIN sessions)
            /\ (\A k \in 1..Len(n) : n[k] # ".") =>
                  /\ r.is_none
                  /\ r.actual_tool_name = n
                  /\ fn_out.unknown
            /\ (n # <<>> /\ n[1] = ".") => fn_out.unknown
            /\ (n = <<"a", ".", "b">>) =>
                  /\ r.server_name = <<"a">>
                  /\ r.actual_tool_name = <<"b">>

\* C8 witness: a name with two dots was resolved to a registered server, the
\* second dot staying in the tool name.
C8_Witness ==
    /\ fn_out.kind = "resolved"
    /\ fn_in.tool_name = <<"a", ".", "b", ".">>
    /\ ~fn_out.unknown
    /\ fn_out.split.actual_tool_name = <<"b", ".">>

\* the positions of tool_calls that have an invocation of kind K in the record
Invoked(f, K(_)) == {f.calls[p].i : p \in {r \in 1..Len(f.calls) : K(f.calls[r])}}

\* C9: a tool call whose server name is null or absent from the registry
\* causes no call_tool invocation and is not fatal: the calls after it are
\* still processed, the follow-up call is still issued and the turn is still
\* appended.
C9_UnknownServerIsSkippedNotFatal ==
    \A t \in TurnIds :
        LET f == frame[t]
            n == Len(f.tool_calls)
        IN  InToolPhase(f) =>
              /\ \A k \in 1..n :
                    ~HasSession(f.tool_calls[k].name, sessions) =>
                        k \notin Invoked(f, IsCallTool)
              /\ \A k \in 1..n :
                    (k < f.i /\ HasSession(f.tool_calls[k].name, sessions)) =>
                        k \in Invoked(f, IsHil)
              /\ (f.i <= n) => HasSession(f.tool_calls[f.i].name, sessions)
              /\ (f.pc = "done") =>
                    /\ Len(ChatEvents(f)) = 2
                    /\ chat_history = Append(f.h0, [query |-> f.query,
                                                    response |-> f.response_text])

\* C9 witness: a turn was appended whose tool phase held a call to an unknown
\* server followed by a call that was approved and executed.
C9_Witness ==
    \E t \in TurnIds :
        LET f == frame[t]
        IN  /\ f.pc = "done"
            /\ Len(f.tool_calls) = 2
            /\ ~HasSession(f.tool_calls[1].name, sessions)
            /\ 2 \in Invoked(f, IsResult)
            /\ Len(chat_history) = Len(f.h0) + 1

\* C10: for an approved call to a known server, call_tool is invoked on the
\* session registered under the server part of the name, with the tool part
\* as tool name and the arguments unmodified; the appended tool message has
\* the text of the first content item of the result as content and the full
\* qualified name as name.
C10_DispatchAndResultMessage ==
    \A t \in TurnIds :
        LET f == frame[t]
            c == f.calls
            hs == HilEvents(f)
            ms == ToolMsgs(f)
        IN  /\ \A p \in 1..Len(c) :
                  IsCallTool(c[p]) =>
                      LET tc == f.tool_calls[c[p].i]
                      IN  \E s \in DOMAIN sessions :
                              /\ RoutesTo(tc.name, s)
                              /\ c[p].session = sessions[s].session
                              /\ s \o <<".">> \o c[p].tool = tc.name
                              /\ c[p].arguments = tc.arguments
            /\ \A j \in 1..Len(hs), p \in 1..Len(c) :
                  (IsResult(c[p]) /\ c[p].i = hs[j].i /\ c[p].content # <<>>) =>
                      /\ Len(ms) >= j
                      /\ ms[j] = [ role |-> "tool",
                                   content |-> c[p].content[1].text,
                                   name |-> f.tool_calls[hs[j].i].name ]

\* C10 witness: with two sessions registered, a call to the second server got
\* a result of two content items and its tool message is in the list.
C10_Witness ==
    \E t \in TurnIds :
        LET f == frame[t]
            c == f.calls
        IN  /\ Cardinality(DOMAIN sessions) = 2
            /\ \E p \in 1..Len(c) :
                  /\ IsResult(c[p])
                  /\ Len(c[p].content) = 2
                  /\ f.tool_calls[c[p].i].name = NameBS
            /\ Len(ToolMsgs(f)) >= 1

\* C11: with context retention enabled and N >= 1 prior turns, the messages
\* built for a new query are exactly 2N + 1 (2N + 2 with a system prompt): the
\* system prompt first if there is one, then for each prior turn, oldest
\* first, its user message followed by its assistant message, then the
\* current query last; no prior turn is left out.
C11_RetainedContextMessages ==
    (fn_out.kind = "messages" /\ settings.retain_context /\ fn_in.history # <<>>) =>
        LET m == fn_out.messages
            h == fn_in.history
            N == Len(h)
            s == IF settings.system_prompt # "" THEN 1 ELSE 0
        IN  /\ Len(m) = 2 * N + 1 + s
            /\ s = 1 => m[1] = [role |-> "system", content |-> settings.system_prompt]
            /\ \A k \in 1..N :
                    /\ m[s + 2 * k - 1] = [role |-> "user", content |-> h[k].query]
                    /\ m[s + 2 * k] = [role |-> "assistant", content |-> h[k].response]
            /\ m[2 * N + 1 + s] = [role |-> "user", content |-> fn_in.query]

\* C11 witness: the messages were built with retention enabled and a system
\* prompt, over a history of MaxHistory turns whose first and last differ.
C11_Witness ==
    /\ fn_out.kind = "messages"
    /\ settings.retain_context
    /\ settings.system_prompt # ""
    /\ Len(fn_in.history) = MaxHistory
    /\ fn_in.history[1] # fn_in.history[MaxHistory]

\* C12: with context retention disabled, or with an empty history, the
\* messages built are exactly the single user message of the query, preceded
\* by the system prompt if one is configured, whatever the size of the
\* history; building the messages leaves chat_history as it was.
C12_NoContextMessages ==
    (fn_out.kind = "messages" /\ (~settings.retain_context \/ fn_in.history = <<>>)) =>
        /\ fn_out.messages =
              (IF settings.system_prompt # ""
               THEN <<[role |-> "system", content |-> settings.system_prompt]>>
               ELSE <<>>)
              \o <<[role |-> "user", content |-> fn_in.query]>>
        /\ chat_history = fn_in.history

\* C12 witness: the messages were built with retention disabled over a
\* history of MaxHistory turns.
C12_Witness ==
    /\ fn_out.kind = "messages"
    /\ ~settings.retain_context
    /\ Len(fn_in.history) = MaxHistory
    /\ Len(chat_history) = MaxHistory

\* C17: clear_history empties chat_history, sets actual_token_count to zero
\* and reports the number of turns it removed; called again on the emptied
\* context it reports 0 and leaves the state as it is.
C17_ClearHistory ==
    fn_out.kind = "reports" =>
        /\ Len(fn_out.reports) >= 1 =>
                /\ chat_history = <<>>
                /\ actual_token_count = 0
                /\ fn_out.reports[1] = Len(fn_in.history)
                /\ sessions = NoSessions /\ enabled_tools = {}
                /\ settings = InitSettings
        /\ Len(fn_out.reports) = 2 => fn_out.reports[2] = 0

\* C17 witness: clear_history was called twice on a context of four turns
\* with a positive token count.
C17_Witness ==
    /\ fn_out.kind = "reports"
    /\ Len(fn_out.reports) = 2
    /\ Len(fn_in.history) = 4
    /\ fn_in.tokens > 0

\* C13: the tool phase is entered only if the initial stream returned a
\* non-empty tool-call list and at least one tool is enabled when the stream
\* ends; otherwise the approval callback and the sessions are never invoked,
\* the turn makes exactly one model call, and the text of that call is the
\* response appended for the turn.
C13_ToolPhaseGate ==
    \A t \in TurnIds :
        LET f == frame[t]
            st == StreamEvents(f)
        IN  /\ InToolPhase(f) =>
                    /\ Len(st) >= 1
                    /\ st[1].n_calls > 0
                    /\ enabled_tools # {}
            /\ (Len(st) >= 1 /\ ~(st[1].n_calls > 0 /\ enabled_tools # {})) =>
                    /\ f.pc = "done"
                    /\ PositionEvents(f) = <<>>
                    /\ Len(ChatEvents(f)) = 1
                    /\ Len(st) = 1
                    /\ chat_history =
                          Append(f.h0, [query |-> f.query, response |-> st[1].text])

\* C13 witness: a turn whose initial stream returned tool calls while no tool
\* was enabled has been appended with the text of that stream.
C13_Witness ==
    \E t \in TurnIds :
        /\ frame[t].pc = "done"
        /\ Len(frame[t].tool_calls) = MaxCalls
        /\ enabled_tools = {}
        /\ sessions # NoSessions
        /\ frame[t].response_text = "r1"
        /\ chat_history = Append(frame[t].h0, [query |-> frame[t].query, response |-> "r1"])

\* C16: while a turn runs, and when it has completed, actual_token_count is
\* its value at the start of the turn plus the sum of the eval counts of the
\* streams accumulated so far (the initial one, and the follow-up one if the
\* tool phase ran), a stream that reports zero or no eval count or no metrics
\* adding 0; and no step other than clear_history decreases the counter.
C16_TokenCountAddsEvalCounts ==
    /\ [](\A t \in SeqTurns :
            InFlight(t) =>
                actual_token_count = frame[t].c0 + SumEval(StreamEvents(frame[t])))
    /\ [][actual_token_count' >= actual_token_count \/ ClearHistory]_vars

\* C16 witness: a turn that started with a positive count has completed after
\* two streams that each reported a positive eval count.
C16_Witness ==
    \E t \in SeqTurns :
        /\ frame[t].pc = "done"
        /\ frame[t].c0 > 0
        /\ Len(StreamEvents(frame[t])) = 2
        /\ \A p \in 1..2 : StreamEvents(frame[t])[p].eval > 0
        /\ actual_token_count = frame[t].c0 + 2

\* C14: the follow-up model call is issued exactly once per tool phase and
\* only after every tool call has been processed; it uses the model and the
\* options of the initial call and carries no tools, while the initial call
\* carries exactly the enabled tools; its messages are the messages of the
\* initial call followed by the tool messages in the order they were appended.
C14_FollowUpCall ==
    \A t \in TurnIds :
        LET f == frame[t]
            ch == ChatEvents(f)
        IN  /\ Len(ch) <= 2
            /\ Len(ch) >= 1 => ch[1].has_tools /\ ch[1].tools = enabled_tools
            /\ (InToolPhase(f) /\ f.pc \in {"chat2", "stream2", "done"}) => Len(ch) = 2
            /\ Len(ch) = 2 =>
                    /\ LoopDone(f)
                    /\ \A k \in 1..Len(f.tool_calls) :
                            \/ UnknownServer(f.tool_calls[k].name, sessions)
                            \/ k \in Invoked(f, IsHil)
                    /\ \A p, r \in 1..Len(f.calls) :
                            (IsChat(f.calls[p]) /\ HasPosition(f.calls[r]))
                                => (r < p \/ f.calls[p] = ch[1])
                    /\ ch[2].model = ch[1].model
                    /\ ch[2].options = ch[1].options
                    /\ ~ch[2].has_tools
                    /\ ch[2].tools = {}
                    /\ ch[2].messages =
                          ch[1].messages \o MessagesOfEvents(f, PositionEvents(f))

\* C14 witness: the follow-up call of a tool phase with a rejected and an
\* executed call was issued after the model and its configuration had been
\* changed during the turn.
C14_Witness ==
    \E t \in TurnIds :
        LET f == frame[t]
            ch == ChatEvents(f)
        IN  /\ Len(ch) = 2
            /\ ch[1].model # settings.model
            /\ ch[1].options # settings.options
            /\ ch[1].tools # {}
            /\ Len(MessagesOfEvents(f, PositionEvents(f))) = 2
            /\ \E p \in 1..Len(f.calls) : IsHil(f.calls[p]) /\ ~f.calls[p].ret
            /\ \E p \in 1..Len(f.calls) : IsResult(f.calls[p])

\* C15: the response appended for a completed turn is the text of the last
\* stream of the turn (the follow-up one if the tool phase ran, the initial
\* text being discarded; the initial one otherwise); a missing or empty text
\* is stored as the empty string and the turn is appended all the same.
C15_LastTextIsTheResponse ==
    \A t \in TurnIds :
        LET f == frame[t]
            st == StreamEvents(f)
        IN  f.pc = "done" =>
                /\ Len(st) = (IF InToolPhase(f) THEN 2 ELSE 1)
                /\ LET last == st[Len(st)].text
                   IN  chat_history =
                         Append(f.h0, [ query |-> f.query,
                                        response |-> IF last = NoText THEN "" ELSE last ])

\* C15 witness: a turn whose initial stream gave a text and whose follow-up
\* stream gave none has been appended with the empty string.
C15_Witness ==
    \E t \in TurnIds :
        LET st == StreamEvents(frame[t])
        IN  /\ frame[t].pc = "done"
            /\ Len(st) = 2
            /\ st[1].text = "r1"
            /\ st[2].text = NoText
            /\ Len(chat_history) = 1
            /\ chat_history[1].response = ""

\* C18: supports_thinking_mode returns false whenever the metadata query
\* fails (it raises, or gives no or empty capabilities) and never makes the
\* turn fail: the model call that follows the probe is issued, without the
\* reasoning flag.
C18_FailedProbeIsFalseAndHarmless ==
    \A t \in TurnIds :
        LET c == frame[t].calls
        IN  \A p \in 1..Len(c) :
                (IsProbe(c[p]) /\ ShowFailed(c[p].info)) =>
                    /\ ~c[p].ret
                    /\ p < Len(c)
                    /\ IsChat(c[p + 1])
                    /\ c[p + 1].think = "absent"

\* C18 witness: in one turn the metadata query raised at the first probe and
\* gave empty capabilities at the second, and the turn was appended.
C18_Witness ==
    \E t \in TurnIds :
        LET pr == ProbeEvents(frame[t])
        IN  /\ frame[t].pc = "done"
            /\ Len(pr) = 2
            /\ pr[1].info = ShowRaises
            /\ pr[2].info = ShowEmpty
            /\ Len(chat_history) = 1

\* C19: an exception raised by call_tool for one tool call does not abort the
\* remaining tool calls of the phase: when a call to a registered server comes
\* after the failed one, the turn does not end on the exception, the loop
\* moves on past the failed call.
C19_ToolFailureDoesNotAbort ==
    \A t \in TurnIds :
        LET f == frame[t]
            c == f.calls
        IN  \A p \in 1..Len(c) :
                ( /\ IsCallToolRaised(c[p])
                  /\ \E k \in (c[p].i + 1)..Len(f.tool_calls) :
                        ~UnknownServer(f.tool_calls[k].name, sessions) )
                    => (f.i > c[p].i /\ ~(f.pc = "failed" /\ p = Len(c)))

\* C20: when call_tool raises, the exception leaves process_query: no later
\* tool call is approved or dispatched, no follow-up model call is issued and
\* no turn is appended.
C20_ToolFailureAbortsTheTurn ==
    \A t \in TurnIds :
        LET f == frame[t]
            c == f.calls
        IN  \A p \in 1..Len(c) :
                IsCallToolRaised(c[p]) =>
                    /\ p = Len(c)
                    /\ f.pc = "failed"
                    /\ f.i = c[p].i
                    /\ Len(ChatEvents(f)) = 1
                    /\ chat_history = f.h0

\* C20 witness: call_tool raised for the first of two calls to a registered
\* server, after that call had been approved.
C20_Witness ==
    \E t \in TurnIds :
        LET f == frame[t]
        IN  /\ f.pc = "failed"
            /\ Len(f.tool_calls) = 2
            /\ ~UnknownServer(f.tool_calls[2].name, sessions)
            /\ Len(f.calls) >= 3
            /\ LET n == Len(f.calls)
               IN  /\ f.calls[n] = [op |-> "call_tool_raised", i |-> 1]
                   /\ IsCallTool(f.calls[n - 1])
                   /\ IsHil(f.calls[n - 2]) /\ f.calls[n - 2].ret

\* C21: there is no retry: in one turn the initial model call is made exactly
\* once and the follow-up call at most once (at most two model calls in all),
\* call_tool is invoked at most once for each tool call, and a turn that has
\* failed makes no further step but its return (a turn cancelled at its first
\* probe has made no model call).
C21_NoRetry ==
    /\ [](\A t \in TurnIds :
            LET f == frame[t]
                ch == ChatEvents(f)
                IsInitial(e) == IsChat(e) /\ e.has_tools
                IsFollowUp(e) == IsChat(e) /\ ~e.has_tools
            IN  /\ Len(ch) <= 2
                /\ Len(SelectSeq(f.calls, IsInitial)) =
                      (IF f.pc \in {"idle", "probe1"} \/ f.calls = <<>> THEN 0 ELSE 1)
                /\ Len(SelectSeq(f.calls, IsFollowUp)) <= 1
                /\ \A k \in 1..Len(f.tool_calls) :
                        LET IsCallK(e) == IsCallTool(e) /\ e.i = k
                        IN  Len(SelectSeq(f.calls, IsCallK)) <= 1)
    /\ [][\A t \in TurnIds :
            frame[t].pc = "failed" => frame'[t].pc \in {"failed", "idle"}]_vars

\* C21 witness: a turn failed at its follow-up call after call_tool had been
\* invoked for each of its two tool calls.
C21_Witness ==
    \E t \in TurnIds :
        LET f == frame[t]
        IN  /\ f.pc = "failed"
            /\ Len(ChatEvents(f)) = 2
            /\ f.calls[Len(f.calls)].op = "chat"
            /\ Len(f.tool_calls) = 2
            /\ Invoked(f, IsCallTool) = {1, 2}

\* the key of a section is absent from a document, the section itself being
\* absent or present
KeyAbsent(doc, section, key) ==
    section \notin DOMAIN doc \/ key \notin DOMAIN doc[section]

\* a service with its settings and enabled tools, and the configuration
\* manager holding nothing under the name
InitSave ==
    /\ chat_history = <<>>
    /\ actual_token_count = 0
    /\ sessions = [s \in {<<"a">>} |-> [session |-> <<"session", s>>]]
    /\ enabled_tools \in SUBSET ToolNames
    /\ settings \in {st \in AllSettings :
                        [system_prompt |-> st.system_prompt, options |-> st.options]
                            \in ModelConfigs}
    /\ frame = [t \in TurnIds |-> IdleFrame]
    /\ fn_in = [kind |-> "store", doc |-> NoKeys, saved |-> FALSE,
                settings |-> settings]
    /\ fn_out = NoInput

\* save_configuration(name) called once: the configuration manager keeps the
\* document under the name and reports success, or keeps nothing and reports
\* failure
SaveConfigurationCall(success) ==
    /\ fn_in.kind = "store"
    /\ ~fn_in.saved
    /\ fn_out = NoInput
    /\ fn_in' = [kind |-> "store",
                 doc |-> IF success
                         THEN SavedDocument(settings, enabled_tools, sessions)
                         ELSE NoKeys,
                 saved |-> success, settings |-> settings]
    /\ UNCHANGED <<chat_history, actual_token_count, sessions, enabled_tools,
                   settings, frame, fn_out>>

\* the owner of the service assigns its feature flags
SetFlags(retain, thinking, show_think, show_tools, show_metr) ==
    /\ fn_in.kind = "store"
    /\ fn_out = NoInput
    /\ settings' = [settings EXCEPT !.retain_context = retain,
                                    !.thinking_mode = thinking,
                                    !.show_thinking = show_think,
                                    !.show_tool_execution = show_tools,
                                    !.show_metrics = show_metr]
    /\ UNCHANGED <<chat_history, actual_token_count, sessions, enabled_tools,
                   frame, fn_in, fn_out>>

\* load_configuration(name) called once: the configuration manager hands back
\* the document it keeps under the name
LoadSavedCall ==
    /\ fn_in.kind = "store"
    /\ fn_out = NoInput
    /\ fn_out' = [kind |-> "restored", found |-> fn_in.doc # NoKeys,
                  before |-> settings]
    /\ IF fn_in.doc = NoKeys
       THEN UNCHANGED <<settings, enabled_tools>>
       ELSE /\ settings' = LoadedSettings(fn_in.doc, settings)
            /\ enabled_tools' = LoadedTools(fn_in.doc, enabled_tools, sessions)
    /\ UNCHANGED <<chat_history, actual_token_count, sessions, frame, fn_in>>

NextSave ==
    \/ \E success \in BOOLEAN : SaveConfigurationCall(success)
    \/ \E a, b, c, d, e \in BOOLEAN : SetFlags(a, b, c, d, e)
    \/ LoadSavedCall

SpecSave == InitSave /\ [][NextSave]_vars

\* C23: load_configuration applies only the keys present in the document:
\* every setting whose key is absent, also inside a section that is present,
\* keeps the value it had before the call.
C23_AbsentKeysLeftUntouched ==
    fn_out.kind = "loaded" =>
        LET doc == fn_in.doc
            old == fn_in.settings
        IN  /\ "model" \notin DOMAIN doc => settings.model = old.model
            /\ "enabledTools" \notin DOMAIN doc => enabled_tools = fn_in.enabled_tools
            /\ KeyAbsent(doc, "contextSettings", "retainContext")
                    => settings.retain_context = old.retain_context
            /\ KeyAbsent(doc, "modelSettings", "thinkingMode")
                    => settings.thinking_mode = old.thinking_mode
            /\ KeyAbsent(doc, "modelSettings", "showThinking")
                    => settings.show_thinking = old.show_thinking
            /\ "modelConfig" \notin DOMAIN doc
                    => /\ settings.system_prompt = old.system_prompt
                       /\ settings.options = old.options
            /\ KeyAbsent(doc, "displaySettings", "showToolExecution")
                    => settings.show_tool_execution = old.show_tool_execution
            /\ KeyAbsent(doc, "displaySettings", "showMetrics")
                    => settings.show_metrics = old.show_metrics

\* C22: the session registry and the enabled tools are snapshots taken once
\* per turn: a turn enters the tool phase only if a tool was enabled when the
\* turn started, and dispatches a call only to a server that was registered
\* when the turn started, whatever the connector did while it was suspended.
C22_SnapshotsPerTurn ==
    \A t \in TurnIds :
        LET f == frame[t]
        IN  /\ InToolPhase(f) => f.available_tools # {}
            /\ \A p \in 1..Len(f.calls) :
                    IsCallTool(f.calls[p]) =>
                        SplitName(f.tool_calls[f.calls[p].i].name).server_name \in f.s0

\* C26: every model call of a turn, initial or follow-up, comes right after a
\* capability probe, the first probe being the first thing the turn does once
\* its messages are built; the call carries the reasoning flag only if that
\* probe returned true, the flag then having the value of thinking_mode when
\* the call is made, and carries no flag at all if the probe returned false.
C26_ProbeGatesReasoningFlag ==
    /\ [](\A t \in TurnIds :
            LET c == frame[t].calls
            IN  /\ c # <<>> => IsProbe(c[1])
                /\ \A p \in 1..Len(c) :
                        IsChat(c[p]) =>
                            /\ p > 1
                            /\ IsProbe(c[p - 1])
                            /\ c[p].messages # <<>>
                            /\ c[p].think = "absent" <=> ~c[p - 1].ret)
    /\ [][\A t \in TurnIds :
            LET c == frame'[t].calls
            IN  (Len(c) = Len(frame[t].calls) + 2 /\ IsChat(c[Len(c)]) /\ c[Len(c) - 1].ret)
                    => c[Len(c)].think = (IF settings.thinking_mode THEN "true" ELSE "false")]_vars

\* C26 witness: the initial call of a turn carried the flag with the value
\* false (the probe returned true, thinking mode was off) and the follow-up
\* call, made after thinking mode had been set again, carried none.
C26_Witness ==
    \E t \in TurnIds :
        LET ch == ChatEvents(frame[t])
            pr == ProbeEvents(frame[t])
        IN  /\ Len(ch) = 2
            /\ pr[1].ret /\ ch[1].think = "false"
            /\ ~pr[2].ret /\ ch[2].think = "absent"
            /\ settings.thinking_mode

\* C27: chat_history changes only by a turn's last step appending one entry
\* (the turn's query and a response text) at its end, or by clear_history
\* emptying it; every other step (load and save configuration, set_model,
\* set_enabled_tools, set_model_config, connect_to_servers, the probe and the
\* other steps of a turn) leaves it as it is.
C27_HistoryAppendOrClearOnly ==
    [][ \/ chat_history' = chat_history
        \/ ClearHistory
        \/ \E t \in TurnIds :
              /\ frame[t].pc \in {"stream1", "stream2"}
              /\ frame'[t].pc = "done"
              /\ \E r \in Texts :
                    chat_history' =
                        Append(chat_history, [query |-> frame[t].query, response |-> r])
      ]_vars

\* C27 witness: two turns are in the history, after the model was changed, a
\* server connected and a configuration loaded that switched thinking mode off.
C27_Witness ==
    /\ Len(chat_history) = 2
    /\ settings.model = "m2"
    /\ settings.system_prompt = "sys"
    /\ ~settings.thinking_mode
    /\ sessions # NoSessions
    /\ enabled_tools # {}

\* C28: appending the turn never changes the token counter and merging
\* metrics never changes chat_history: in a step of a turn that changes the
\* history, the counter grows by the eval count of the stream that just ended
\* and by nothing else; in a step that changes the counter, the history is
\* left as it is or gets the turn's entry, whose text does not depend on the
\* metrics.
C28_AppendAndMergeAreDisjoint ==
    [][ ClearHistory \/
        \A t \in SeqTurns :
            LET st == StreamEvents(frame'[t])
                streamed == Len(st) = Len(StreamEvents(frame[t])) + 1
            IN  /\ chat_history' # chat_history =>
                        /\ streamed
                        /\ actual_token_count' = actual_token_count + st[Len(st)].eval
                /\ actual_token_count' # actual_token_count =>
                        /\ streamed
                        /\ \/ chat_history' = chat_history
                           \/ chat_history' =
                                Append(chat_history, [ query |-> frame[t].query,
                                                       response |-> st[Len(st)].text ])
      ]_vars

\* C28 witness: a turn that started with a positive counter was appended by
\* the step that merged a positive eval count of its follow-up stream.
C28_Witness ==
    \E t \in SeqTurns :
        LET st == StreamEvents(frame[t])
        IN  /\ frame[t].pc = "done"
            /\ Len(st) = 2
            /\ st[1].eval = 0
            /\ st[2].eval > 0
            /\ frame[t].c0 > 0
            /\ frame[t].h0 # <<>>
            /\ actual_token_count = frame[t].c0 + st[2].eval
            /\ Len(chat_history) = Len(frame[t].h0) + 1

\* the slices of a stream that belong to one call index, in stream order
RECURSIVE SlicesOf(_, _)
SlicesOf(fragments, index) ==
    IF fragments = <<>> THEN <<>>
    ELSE (IF Head(fragments).tool_calls # <<>>
             /\ Head(fragments).tool_calls[1].index = index
          THEN <<Head(fragments).tool_calls[1]>> ELSE <<>>)
         \o SlicesOf(Tail(fragments), index)

\* the concatenation of one field over a sequence of slices or fragments
RECURSIVE Concat(_, _)
Concat(items, field) ==
    IF items = <<>> THEN <<>> ELSE Head(items)[field] \o Concat(Tail(items), field)

\* the call indices that occur in a stream
IndicesOf(fragments) ==
    { fragments[p].tool_calls[1].index :
        p \in {r \in 1..Len(fragments) : fragments[r].tool_calls # <<>>} }

\* C25: the tool-call slices of one stream that carry the same call index are
\* merged into exactly one tool call, its name and arguments those of all the
\* slices concatenated in stream order; tool calls are handed back only once
\* the stream has ended; a stream without tool calls gives the empty list and
\* a stream without text the empty string.
C25_FragmentsMergedAtStreamEnd ==
    /\ fn_out.kind = "accumulating" => "tool_calls" \notin DOMAIN fn_out
    /\ fn_out.kind = "returned" =>
            LET fs == fn_in.fragments
                tcs == fn_out.tool_calls
            IN  /\ Len(tcs) = Cardinality(IndicesOf(fs))
                /\ \A k \in IndicesOf(fs) :
                        \E p \in 1..Len(tcs) :
                            /\ tcs[p].name = Concat(SlicesOf(fs, k), "name")
                            /\ tcs[p].arguments = Concat(SlicesOf(fs, k), "arguments")
                /\ fn_out.text = Concat(fs, "text")
                /\ IndicesOf(fs) = {} => tcs = <<>>
                /\ (\A p \in 1..Len(fs) : fs[p].text = <<>>) => fn_out.text = <<>>

\* C25 witness: a stream whose first fragment carried the name of a call and
\* whose three later fragments carried slices of its arguments has ended and
\* handed back one tool call with the three slices concatenated.
C25_Witness ==
    /\ fn_out.kind = "returned"
    /\ Len(fn_in.fragments) = 4
    /\ fn_in.fragments[1].tool_calls[1].name = <<"n">>
    /\ fn_out.tool_calls = <<[name |-> <<"n">>, arguments |-> <<"x", "y", "x">>]>>
    /\ fn_out.text = <<>>

\* C29: in the chat path of the terminal UI, with Human-in-the-Loop enabled,
\* call_tool is invoked for a tool call only after the approval gate was
\* asked about that call and approved it.
C29_TuiDispatchOnlyAfterApproval ==
    \A t \in TurnIds :
        LET c == frame[t].calls
        IN  \A p \in 1..Len(c) :
                (IsCallTool(c[p]) /\ settings.hil_enabled) =>
                    \E r \in 1..(p - 1) :
                        IsHil(c[r]) /\ c[r].i = c[p].i /\ c[r].ret

\* C30: in the chat path of the terminal UI the messages of the initial model
\* call are, with Retain Context enabled and prior turns in chat_history,
\* every prior turn as a user/assistant pair, oldest first, followed by the
\* current query, and the current query alone with the setting disabled.
C30_TuiRetainedContextMessages ==
    \A t \in TurnIds :
        LET f == frame[t]
        IN  f.pc \notin {"idle"} =>
                ChatEvents(f)[1].messages =
                    BuildMessages(f.query, f.h0, settings.retain_context, "")

\* the invocations that complete in the step: they reach their return
Completing == {t \in TurnIds : frame[t].pc # "done" /\ frame'[t].pc = "done"}

\* the eval counts of the streams that ended for invocation t in the step
RECURSIVE NewEval(_)
NewEval(ts) ==
    IF ts = {} THEN 0
    ELSE LET t == CHOOSE x \in ts : TRUE
             old == StreamEvents(frame[t])
             new == StreamEvents(frame'[t])
         IN  (IF Len(new) > Len(old) THEN SumEval(new) - SumEval(old) ELSE 0)
               + NewEval(ts \ {t})

\* C31: under any interleaving of overlapping process_query calls, every
\* call that completes appends exactly one history entry, none being lost or
\* duplicated, and every eval count merged is added to the token counter
\* (no lost update).
C31_OverlappingTurnsLoseNothing ==
    [][ /\ Len(chat_history') = Len(chat_history) + Cardinality(Completing)
        /\ SubSeq(chat_history', 1, Len(chat_history)) = chat_history
        /\ actual_token_count' = actual_token_count + NewEval(TurnIds) ]_vars

\* C31 witness: two calls that both started on the empty history have both
\* completed, each having merged an eval count.
C31_Witness ==
    /\ \A t \in TurnIds :
            /\ frame[t].pc = "done"
            /\ frame[t].h0 = <<>>
            /\ frame[t].c0 = 0
            /\ SumEval(StreamEvents(frame[t])) = 1
    /\ Len(chat_history) = 2
    /\ actual_token_count = 2

\* s is an initial part of h
IsPrefix(s, h) == Len(s) <= Len(h) /\ SubSeq(h, 1, Len(s)) = s

\* C32: when process_query calls overlap, each works on its own messages:
\* the follow-up call of a turn carries its initial messages and the tool
\* messages of its own tool calls only; the messages built at its start
\* hold turns that were finalized then and remain in the history, not the
\* unfinished other turn; and a completing turn is appended last, so that
\* the history is in the order of completion.
C32_OverlappingTurnsAreSeparate ==
    /\ [](\A t \in TurnIds :
            LET f == frame[t]
                ch == ChatEvents(f)
            IN  /\ Len(ch) >= 1 =>
                        /\ ch[1].messages =
                              BuildMessages(f.query, f.h0, settings.retain_context,
                                            settings.system_prompt)
                        /\ IsPrefix(f.h0, chat_history)
                        /\ \A o \in TurnIds \ {t} :
                              \A p \in 1..Len(f.h0) :
                                  (f.h0[p].query = frame[o].query /\ frame[o].pc # "done")
                                      => IsPrefix(SubSeq(f.h0, 1, p), frame[o].h0)
                /\ Len(ch) = 2 =>
                        /\ ch[2].messages =
                              ch[1].messages \o MessagesOfEvents(f, PositionEvents(f))
                        /\ \A p \in 1..Len(ch[2].messages) :
                              IsToolMessage(ch[2].messages[p]) =>
                                  ch[2].messages[p].content
                                      \in {SkippedByUser} \cup
                                          {c[1].text : c \in OverlapResults(t)})
    /\ [][\A t \in Completing :
              chat_history' = Append(chat_history, chat_history'[Len(chat_history')])
              /\ chat_history'[Len(chat_history')].query = frame[t].query]_vars

\* C32 witness: two calls that started on the same history have both run a
\* tool and completed, the second query ahead of the first in the history.
C32_Witness ==
    /\ \A t \in TurnIds :
            /\ frame[t].pc = "done"
            /\ frame[t].h0 = <<>>
            /\ Len(ResultEvents(frame[t])) = 1
            /\ Len(ChatEvents(frame[t])) = 2
    /\ Len(chat_history) = 2
    /\ chat_history[1].query = "q2"
    /\ chat_history[2].query = "q1"

IsClear(e) == e.op = "clear"

\* the position of the last clear_history() in the record of an invocation,
\* 0 if there is none, and the position of its last stream end
LastAt(c, K(_)) ==
    IF \E p \in 1..Len(c) : K(c[p])
    THEN CHOOSE p \in 1..Len(c) : K(c[p]) /\ \A r \in (p + 1)..Len(c) : ~K(c[r])
    ELSE 0

\* C33: clear_history running while a turn is suspended does not cancel the
\* turn: the turn goes on from where it was, its messages being those built
\* from the history before the clear; when it completes, the history holds
\* exactly its {query, response} and the token counter holds the eval counts
\* merged after the clear only.
C33_ClearDuringTurn ==
    /\ [](\A t \in SeqTurns :
            LET f == frame[t]
                c == f.calls
                p == LastAt(c, IsClear)
                q == LastAt(c, IsStream)
            IN  (f.pc = "done" /\ 0 < p /\ p < q) =>
                    /\ chat_history = <<HistoryEntry(f.query, c[q].text)>>
                    /\ actual_token_count =
                          SumEval(SelectSeq(SubSeq(c, p + 1, Len(c)), IsStream))
                    /\ ChatEvents(f)[1].messages =
                          BuildMessages(f.query, f.h0, settings.retain_context,
                                        settings.system_prompt))
    /\ [][\A t \in SeqTurns :
              (LastAt(frame'[t].calls, IsClear) > Len(frame[t].calls))
                  => /\ frame'[t].pc = frame[t].pc
                     /\ frame'[t].messages = frame[t].messages]_vars

\* C33 witness: a turn that started on a history of one turn, merged an eval
\* count at its initial stream, was cleared while awaiting its tool, and
\* merged another eval count at its follow-up stream, has completed.
C33_Witness ==
    \E t \in SeqTurns :
        LET f == frame[t]
            c == f.calls
            p == LastAt(c, IsClear)
        IN  /\ f.pc = "done"
            /\ Len(f.h0) = 1
            /\ f.c0 = 1
            /\ 1 < p /\ p < Len(c)
            /\ IsCallTool(c[p - 1])
            /\ SumEval(StreamEvents(f)) = 2
            /\ actual_token_count = 1
            /\ Len(chat_history) = 1
            /\ Len(ChatEvents(f)[1].messages) = 3

\* C34: once the tool phase is entered the follow-up model call is issued
\* even when no tool was executed (every call rejected or addressed to an
\* unknown server); when every call was addressed to an unknown server the
\* messages of the follow-up call are those of the initial call; and the
\* response of the turn is the follow-up text, not the initial one.
C34_FollowUpWithoutExecution ==
    \A t \in TurnIds :
        LET f == frame[t]
            ch == ChatEvents(f)
            st == StreamEvents(f)
        IN  (InToolPhase(f) /\ CallToolEvents(f) = <<>>
                /\ f.pc \in {"chat2", "stream2", "done"}) =>
                /\ Len(ch) = 2
                /\ ~ch[2].has_tools
                /\ (\A k \in 1..Len(f.tool_calls) :
                        UnknownServer(f.tool_calls[k].name, sessions))
                      => ch[2].messages = ch[1].messages
                /\ f.pc = "done" =>
                      /\ Len(st) = 2
                      /\ chat_history[Len(chat_history)] =
                            HistoryEntry(f.query, st[2].text)

\* C34 witness: a turn whose two tool calls were both addressed to an unknown
\* server has completed with an empty follow-up text after an initial text.
C34_Witness ==
    \E t \in TurnIds :
        LET f == frame[t]
            ch == ChatEvents(f)
            st == StreamEvents(f)
        IN  /\ f.pc = "done"
            /\ Len(f.tool_calls) = 2
            /\ \A k \in 1..2 : UnknownServer(f.tool_calls[k].name, sessions)
            /\ HilEvents(f) = <<>>
            /\ Len(ch) = 2
            /\ ch[2].messages = ch[1].messages
            /\ st[1].text = "r1"
            /\ st[2].text = ""
            /\ chat_history[Len(chat_history)].response = ""

\* C35: when load_configuration finds no configuration it reports 'not
\* found' and changes nothing: the model, the enabled tools, the five feature
\* flags, the model configuration, the history and the token counter keep
\* their values.
C35_NotFoundChangesNothing ==
    (fn_out.kind = "loaded" /\ fn_in.doc = NoKeys) =>
        /\ ~fn_out.found
        /\ settings = fn_in.settings
        /\ enabled_tools = fn_in.enabled_tools
        /\ chat_history = <<>>
        /\ actual_token_count = 0
        /\ frame = [t \in TurnIds |-> IdleFrame]

\* C35 witness: load_configuration found nothing on a service none of whose
\* settings has its default value and which has a tool enabled.
C35_Witness ==
    /\ fn_out.kind = "loaded"
    /\ ~fn_out.found
    /\ fn_in.doc = NoKeys
    /\ ~settings.retain_context /\ ~settings.thinking_mode /\ settings.show_thinking
    /\ ~settings.show_tool_execution /\ settings.show_metrics
    /\ settings.model = "m2" /\ settings.options = "o2"
    /\ enabled_tools = ToolNames

\* the five feature flags of a settings record
Flags(st) ==
    <<st.retain_context, st.thinking_mode, st.show_thinking,
      st.show_tool_execution, st.show_metrics>>

\* C36: saving and then loading a configuration is a round trip for the
\* feature flags: after a save_configuration that succeeded, any changes of
\* retain_context, thinking_mode, show_thinking, show_tool_execution and
\* show_metrics, and a load_configuration of the same name, the five flags
\* have the values they had when the configuration was saved.
C36_SaveLoadRoundTrip ==
    (fn_out.kind = "restored" /\ fn_in.saved) =>
        /\ fn_out.found
        /\ Flags(settings) = Flags(fn_in.settings)

\* C36 witness: a configuration saved with none of the flags at its default
\* was loaded after every one of the five flags had been changed.
C36_Witness ==
    /\ fn_out.kind = "restored"
    /\ fn_in.saved
    /\ Flags(fn_in.settings) = <<FALSE, FALSE, TRUE, FALSE, TRUE>>
    /\ Flags(fn_out.before) = <<TRUE, TRUE, FALSE, TRUE, FALSE>>
    /\ Flags(settings) = <<FALSE, FALSE, TRUE, FALSE, TRUE>>

\* C37: in the terminal UI, uninstalling a running server stops that same
\* server first: when the uninstall command runs, uninstall_worker has
\* terminated and removed the process of the server it was given, and of no
\* other server, whatever selection was made between the button press and
\* the start of the worker.
C37_UninstallStopsThatServer ==
    (fn_in.kind = "worker" /\ fn_in.pc = "uninstalling") =>
        fn_out.stopped = (IF fn_out.was_running THEN {fn_in.server_name} ELSE {})

====
